---- MODULE Spec2Model ----
(***************************************************************************)
(* openmodel: the availability tracker (package state) and the dispatch    *)
(* core of the HTTP handlers (package server), as a state machine.         *)
(*                                                                         *)
(* Every request flow is a slot of `req`; the tracker `state` is the only  *)
(* shared mutable object.  A step of a flow is one critical section of the *)
(* tracker's mutex together with the flow-local code around it.            *)
(***************************************************************************)
EXTENDS Integers, Sequences, FiniteSets, TLC

VARIABLES
    config,     \* the frozen Config snapshot: models, providers, thresholds
    state,      \* *state.State: failureCounts, unavailableModels, currentTimeout, cycle
    req,        \* per request flow: position in the handler and its locals
    last,       \* the most recently finished request, as the client saw it
    retryLog,   \* the Retry-After headers of the 503 responses, in emission order
    failedSince,\* per key: RecordFailure calls since the last successful call of the key
    scenario,   \* TRUE while every request so far was a blocking one on "M" whose
                \* first chain entry failed and whose second chain entry succeeded
    nStarted,   \* number of requests received so far
    overlap,    \* TRUE once a request was received while another was being handled
    lastOp,     \* the latest write to the tracker: operation, key, tracker before it
    lookup,     \* the response of the latest GET /v1/models/{model}
    pump,       \* the stream relayed chunk by chunk: producer goroutine, channel,
                \* upstream body and the events written to the client
    recorded,   \* per key: RecordFailure calls since the last ResetModel of the key
    invocations,\* per key: provider calls since the last ResetModel of the key
    bodies,     \* upstream response bodies that returned provider calls left open
    conv,       \* the latest blocking chat exchange: what the upstream sent, what
                \* the provider returned, what the handler wrote
    scan,       \* one producer goroutine, line by line: the upstream body, the
                \* scanner's position and the chunks sent on the channel
    outgoing,   \* the latest upstream request a provider method built, next to
                \* the client request it was built for
    expansion   \* one call of expandEnvVars: the environment, the input, the
                \* string the loop is working on and the parity of the number
                \* of iterations done

vars == <<config, state, req, last, retryLog, failedSince, scenario, nStarted,
          overlap, lastOp, lookup, pump, recorded, invocations, bodies, conv,
          scan, outgoing, expansion>>

----------------------------------------------------------------------------
(* Bounds of the model *)

MaxRequests == 2        \* requests over one run of Spec (any overlap)
MaxSeqRequests == 4     \* requests over one run of SpecSeq (no overlap)
MaxThreshold == 2       \* failures_before_switch ranges over 1..MaxThreshold
MaxStreamRequests == 2  \* requests over one run of SpecStream (no overlap)
MaxLines == 3           \* lines an upstream sends on one stream before it ends
BufferCap == 1          \* capacity of the chunk channel of a stream
MaxChoices == 2         \* choices in one upstream chat response
MaxTokens == 2          \* token counts of an upstream usage object range over 0..MaxTokens
MaxBodyLines == 3       \* lines the scanner returns from one upstream body
MaxInputLen == 5        \* characters of a string handed to expandEnvVars

Slots == 1..2           \* request flows that may run at the same time

----------------------------------------------------------------------------
(* Go maps: a missing key reads as the zero value *)

EmptyMap == <<>>

MapGet(m, k, zero) == IF k \in DOMAIN m THEN m[k] ELSE zero

MapSet(m, k, v) == [x \in (DOMAIN m) \cup {k} |-> IF x = k THEN v ELSE m[x]]

MapDelete(m, k) == [x \in (DOMAIN m) \ {k} |-> m[x]]

Min(a, b) == IF a < b THEN a ELSE b

Pow2(n) == 2 ^ n

----------------------------------------------------------------------------
(* package state *)

\* the constructor leaves currentTimeout at its zero value
NewZeroTimeout(initialTimeout) ==
    [failureCounts     |-> EmptyMap,
     unavailableModels |-> EmptyMap,
     currentTimeout    |-> 0,
     cycle             |-> 0]

New(initialTimeout) ==
    [failureCounts     |-> EmptyMap,
     unavailableModels |-> EmptyMap,
     currentTimeout    |-> initialTimeout,
     cycle             |-> 0]

\* the threshold comparison is off by one: marks at threshold - 1
RecordFailureMarksEarly(s, model, threshold) ==
    LET counts == MapSet(s.failureCounts, model, MapGet(s.failureCounts, model, 0) + 1)
    IN  [s EXCEPT !.failureCounts = counts,
                  !.unavailableModels =
                      IF counts[model] >= threshold - 1
                      THEN MapSet(s.unavailableModels, model, TRUE)
                      ELSE s.unavailableModels]

\* `=+ 1` for `++`: every call stores 1
RecordFailureStoresOne(s, model, threshold) ==
    LET counts == MapSet(s.failureCounts, model, 1)
    IN  [s EXCEPT !.failureCounts = counts,
                  !.unavailableModels =
                      IF counts[model] >= threshold
                      THEN MapSet(s.unavailableModels, model, TRUE)
                      ELSE s.unavailableModels]

RecordFailure(s, model, threshold) ==
    LET counts == MapSet(s.failureCounts, model, MapGet(s.failureCounts, model, 0) + 1)
    IN  [s EXCEPT !.failureCounts = counts,
                  !.unavailableModels =
                      IF counts[model] >= threshold
                      THEN MapSet(s.unavailableModels, model, TRUE)
                      ELSE s.unavailableModels]

\* a marked key is let through again once the back-off has advanced
IsAvailableAfterBackoff(s, model, threshold) ==
    IF MapGet(s.unavailableModels, model, FALSE)
    THEN s.cycle > 0
    ELSE MapGet(s.failureCounts, model, 0) < threshold

\* `<=` for `<`: a key that has reached the threshold still passes
IsAvailableAtThreshold(s, model, threshold) ==
    IF MapGet(s.unavailableModels, model, FALSE)
    THEN FALSE
    ELSE MapGet(s.failureCounts, model, 0) <= threshold

IsAvailable(s, model, threshold) ==
    IF MapGet(s.unavailableModels, model, FALSE)
    THEN FALSE
    ELSE MapGet(s.failureCounts, model, 0) < threshold

\* only the counter is deleted
ResetModelKeepsUnavailable(s, model) ==
    [s EXCEPT !.failureCounts = MapDelete(s.failureCounts, model)]

\* only the unavailable mark is deleted
ResetModelKeepsCount(s, model) ==
    [s EXCEPT !.unavailableModels = MapDelete(s.unavailableModels, model)]

\* both maps are cleared instead of one key being deleted
ResetModelClearsAll(s, model) ==
    [s EXCEPT !.failureCounts = EmptyMap, !.unavailableModels = EmptyMap]

\* a success also ends the back-off
ResetModelClearsBackoff(s, model) ==
    [s EXCEPT !.failureCounts = MapDelete(s.failureCounts, model),
              !.unavailableModels = MapDelete(s.unavailableModels, model),
              !.currentTimeout = config.Thresholds.InitialTimeout]

ResetModel(s, model) ==
    [s EXCEPT !.failureCounts = MapDelete(s.failureCounts, model),
              !.unavailableModels = MapDelete(s.unavailableModels, model)]

\* the timeout is read as if the advance had already happened
GetProgressiveTimeoutAfterAdvance(s) == s.currentTimeout * 2

GetProgressiveTimeout(s) == s.currentTimeout

\* the doubling is not capped
IncrementTimeoutNoCap(s, max) ==
    [s EXCEPT !.currentTimeout = s.currentTimeout * 2, !.cycle = s.cycle + 1]

\* every advance of the timeout re-admits the unavailable keys
IncrementTimeoutReadmits(s, max) ==
    LET doubled == s.currentTimeout * 2
    IN  [s EXCEPT !.currentTimeout = IF doubled > max THEN max ELSE doubled,
                  !.cycle = s.cycle + 1,
                  !.unavailableModels = EmptyMap]

\* `cycle++` sits in an else branch: a capped advance is not counted
IncrementTimeoutCountsUncapped(s, max) ==
    LET doubled == s.currentTimeout * 2
    IN  [s EXCEPT !.currentTimeout = IF doubled > max THEN max ELSE doubled,
                  !.cycle = IF doubled > max THEN s.cycle ELSE s.cycle + 1]

IncrementTimeout(s, max) ==
    LET doubled == s.currentTimeout * 2
    IN  [s EXCEPT !.currentTimeout = IF doubled > max THEN max ELSE doubled,
                  !.cycle = s.cycle + 1]

----------------------------------------------------------------------------
(* package config: the snapshots the server is started with *)

ModelProvider(p, m) == [provider |-> p, model |-> m]

Chains ==
    { <<ModelProvider("P1", "m1"), ModelProvider("P2", "m2")>>,
      <<ModelProvider("P1", "m1")>>,
      <<ModelProvider("P_missing", "m"), ModelProvider("P1", "m1")>>,
      <<ModelProvider("P1", "m1"), ModelProvider("P1", "m2")>>,
      << >> }

Timeouts == { <<10000, 40000>>, <<1500, 2500>>, <<2000, 2000>> }

Configs ==
    { [Models     |-> [M |-> chain],
       Providers  |-> {"P1", "P2"},
       Thresholds |-> [FailuresBeforeSwitch |-> t,
                       InitialTimeout       |-> tm[1],
                       MaxTimeout           |-> tm[2]]] :
        chain \in Chains, t \in 1..MaxThreshold, tm \in Timeouts }

ModelNames(cfg) == DOMAIN cfg.Models

----------------------------------------------------------------------------
(* package server: request flows *)

Kinds == {"chat", "completions", "embeddings"}

\* what a provider call can come back with: a response, an upstream or
\* network error, or the error of a cancelled request context
Outcomes == {"ok", "err", "cancel"}

\* how an upstream stream can end; each of them closes the channel
StreamEnds == {"eof", "readerr", "cancel"}

\* how the pump's loop can end: the channel is closed after one of StreamEnds,
\* or the chat pump dereferences the nil Message of a choice and panics
PumpEnds(chat) == StreamEnds \cup (IF chat THEN {"panic"} ELSE {})

IdleReq ==
    [pc |-> "idle", model |-> "", stream |-> FALSE, chat |-> FALSE, idx |-> 0,
     invoked |-> << >>, results |-> << >>, timeout |-> 0, advances |-> 0]

NoRequest ==
    [model |-> "", stream |-> FALSE, chat |-> FALSE, invoked |-> << >>,
     results |-> << >>, status |-> << >>, servedBy |-> 0, retryAfter |-> -1,
     advances |-> 0, body |-> "", endCause |-> ""]

\* the key names the provider only
backendKeyOfProvider(backend) == backend.provider

\* fmt.Sprintf("%s/%s", backend.Provider, backend.Model)
backendKey(backend) == backend.provider \o "/" \o backend.model

Chain(r) == config.Models[r.model]

Key(r) == backendKey(Chain(r)[r.idx])

threshold == config.Thresholds.FailuresBeforeSwitch

\* the record of a write to the tracker
Op(name, key) == [op |-> name, key |-> key, before |-> state]

ErrorOf(key, outcome) ==
    IF outcome = "cancel" THEN "context canceled" ELSE "request failed: " \o key

\* r.Context() is cancelled once a call of this request has ended by cancellation
Cancelled(r) == Len(r.results) > 0 /\ r.results[Len(r.results)] = "cancel"

\* var lastErr error: the error of the latest failed call of this request, "" for nil
lastErr(r) ==
    IF Len(r.results) = 0
    THEN ""
    ELSE ErrorOf(backendKey(Chain(r)[r.invoked[Len(r.results)]]), r.results[Len(r.results)])

\* the response the client has received when the handler returns
Response(r, status, servedBy, retryAfter, body, endCause) ==
    [model |-> r.model, stream |-> r.stream, chat |-> r.chat,
     invoked |-> r.invoked, results |-> r.results, status |-> status,
     servedBy |-> servedBy, retryAfter |-> retryAfter, advances |-> r.advances,
     body |-> body, endCause |-> endCause]

\* the loop does not move on to the next entry
ContinueSameEntry(r) == [r EXCEPT !.pc = "check"]

\* `continue` of the range loop: the next entry, or the fall-through behind the loop
Continue(r) ==
    IF r.idx + 1 > Len(Chain(r))
    THEN [r EXCEPT !.pc = "exhausted", !.idx = r.idx + 1]
    ELSE [r EXCEPT !.pc = "check", !.idx = r.idx + 1]

\* whether this request takes the streaming branch of its handler
Streams(kind, stream) == stream /\ kind # "embeddings"

\* the handler up to the range loop: method, body, model lookup; a body that
\* does not decode is malformed JSON, a body without a model field decodes
\* with req.Model = ""
Receive(id, limit) ==
    /\ req[id].pc = "idle"
    /\ \A other \in Slots : other < id => req[other].pc # "idle"
    /\ nStarted < limit
    /\ nStarted' = nStarted + 1
    /\ \E kind \in Kinds, method \in {"POST", "GET"}, decodes \in BOOLEAN,
          model \in {"M", "nonexistent", ""}, stream \in BOOLEAN :
        LET r == [IdleReq EXCEPT !.model = model, !.stream = Streams(kind, stream),
                                 !.chat = (Streams(kind, stream) /\ kind = "chat")]
        IN  /\ scenario' = (scenario /\ method = "POST" /\ decodes /\ model = "M"
                                     /\ ~Streams(kind, stream))
            /\ IF method # "POST"
               THEN /\ last' = Response([r EXCEPT !.model = "", !.stream = FALSE, !.chat = FALSE],
                                        <<405>>, 0, -1, "method not allowed", "")
                    /\ req' = req
               ELSE IF ~decodes
               THEN /\ last' = Response([r EXCEPT !.model = "", !.stream = FALSE, !.chat = FALSE],
                                        <<400>>, 0, -1, "invalid request body", "")
                    /\ req' = req
               ELSE IF model \notin ModelNames(config)
               THEN /\ last' = Response(r, <<404>>, 0, -1,
                                        "model \"" \o model \o "\" not found", "")
                    /\ req' = req
               ELSE /\ last' = last
                    /\ req' = [req EXCEPT ![id] =
                                  IF Len(config.Models[model]) = 0
                                  THEN [r EXCEPT !.pc = "exhausted", !.idx = 1]
                                  ELSE [r EXCEPT !.pc = "check", !.idx = 1]]
    /\ overlap' = (overlap \/ \E other \in Slots : req[other].pc # "idle")
    /\ UNCHANGED <<config, invocations, scan, outgoing, expansion, conv, bodies, lookup, pump, state, retryLog, failedSince, recorded, lastOp>>

\* no blocking chat exchange has been followed yet
NoConv == [op |-> ""]

\* no producer has been started line by line yet
NoScan == [op |-> ""]

\* no upstream request has been built yet
NoOutgoing == [op |-> ""]

\* expandEnvVars has not been called yet
NoExpansion == [op |-> ""]

NoLookup == [status |-> << >>, model |-> "", body |-> ""]

\* a model that is not configured is reported as if it were
handleV1ModelAlwaysFound(limit) ==
    /\ nStarted < limit
    /\ nStarted' = nStarted + 1
    /\ \E method \in {"POST", "GET"}, modelName \in {"M", "nonexistent", ""} :
        lookup' = IF method # "GET"
                  THEN [status |-> <<405>>, model |-> "", body |-> "method not allowed"]
                  ELSE IF modelName = ""
                  THEN [status |-> <<400>>, model |-> "", body |-> "model name required"]
                  ELSE [status |-> <<200>>, model |-> modelName, body |-> modelName]
    /\ scenario' = FALSE
    /\ UNCHANGED <<config, invocations, scan, outgoing, expansion, conv, bodies, pump, state, req, last, retryLog, failedSince, recorded, overlap,
                   lastOp>>

\* GET /v1/models/{model}: the whole handler
handleV1Model(limit) ==
    /\ nStarted < limit
    /\ nStarted' = nStarted + 1
    /\ \E method \in {"POST", "GET"}, modelName \in {"M", "nonexistent", ""} :
        lookup' = IF method # "GET"
                  THEN [status |-> <<405>>, model |-> "", body |-> "method not allowed"]
                  ELSE IF modelName = ""
                  THEN [status |-> <<400>>, model |-> "", body |-> "model name required"]
                  ELSE IF modelName \notin ModelNames(config)
                  THEN [status |-> <<404>>, model |-> modelName, body |-> "model not found"]
                  ELSE [status |-> <<200>>, model |-> modelName, body |-> modelName]
    /\ scenario' = FALSE
    /\ UNCHANGED <<config, invocations, scan, outgoing, expansion, conv, bodies, pump, state, req, last, retryLog, failedSince, recorded, overlap,
                   lastOp>>

\* the loop body without its IsAvailable test
CheckAvailableNoSkip(id) ==
    LET r == req[id]
    IN  /\ r.pc = "check"
        /\ req' = [req EXCEPT ![id] =
                      IF Chain(r)[r.idx].provider \notin config.Providers
                      THEN Continue(r)
                      ELSE [r EXCEPT !.pc = "invoke"]]
        /\ UNCHANGED <<config, invocations, scan, outgoing, expansion, conv, bodies, lookup, pump, state, last, retryLog, failedSince, recorded, scenario, nStarted,
                       overlap, lastOp>>

\* an entry whose provider is not configured is counted as a failed target
CheckAvailableCountsMissing(id) ==
    LET r == req[id]
        missing == /\ IsAvailable(state, Key(r), threshold)
                   /\ Chain(r)[r.idx].provider \notin config.Providers
    IN  /\ r.pc = "check"
        /\ req' = [req EXCEPT ![id] =
                      IF ~IsAvailable(state, Key(r), threshold)
                      THEN Continue(r)
                      ELSE IF Chain(r)[r.idx].provider \notin config.Providers
                      THEN Continue(r)
                      ELSE [r EXCEPT !.pc = "invoke"]]
        /\ state' = IF missing THEN RecordFailure(state, Key(r), threshold) ELSE state
        /\ UNCHANGED <<config, invocations, scan, outgoing, expansion, conv, bodies, lookup, pump, last, retryLog, failedSince, recorded, scenario, nStarted,
                       overlap, lastOp>>

\* head of the loop body: IsAvailable, then the provider lookup
CheckAvailable(id) ==
    LET r == req[id]
    IN  /\ r.pc = "check"
        /\ req' = [req EXCEPT ![id] =
                      IF ~IsAvailable(state, Key(r), threshold)
                      THEN Continue(r)
                      ELSE IF Chain(r)[r.idx].provider \notin config.Providers
                      THEN Continue(r)
                      ELSE [r EXCEPT !.pc = "invoke"]]
        /\ UNCHANGED <<config, invocations, scan, outgoing, expansion, conv, bodies, lookup, pump, state, last, retryLog, failedSince, recorded, scenario, nStarted,
                       overlap, lastOp>>

\* the provider method is called: Chat/Complete/Embed, or StreamChat/StreamComplete
Invoke(id) ==
    LET r == req[id]
    IN  /\ r.pc = "invoke"
        /\ req' = [req EXCEPT ![id] = [r EXCEPT !.pc = "calling",
                                                !.invoked = Append(r.invoked, r.idx)]]
        /\ invocations' = MapSet(invocations, Key(r), MapGet(invocations, Key(r), 0) + 1)
        /\ UNCHANGED <<config, scan, outgoing, expansion, conv, bodies, lookup, pump, state, last, retryLog, failedSince, recorded, scenario, nStarted,
                       overlap, lastOp>>

\* whether the upstream's response, and with it a body, had arrived when the
\* provider call ended: always behind a decoded response, never behind an error
\* of doRequest, and either way otherwise (a status other than 200, a body that
\* does not decode, a request cancelled before or behind the response)
Acquired(outcome) == IF outcome = "ok" THEN {TRUE} ELSE BOOLEAN

\* the bodies a returned provider call has left open and handed to nobody
Left(acquired, closed, handedOver) ==
    IF acquired /\ ~closed /\ ~handedOver THEN 1 ELSE 0

\* the body is closed behind the decoding only, not on the early returns
ClosedByBlockingCallOnSuccess(acquired, outcome) == acquired /\ outcome = "ok"

\* Chat/Complete/Embed: `defer resp.Body.Close()` is registered right behind
\* doRequest, ahead of the status test and of the decoding
ClosedByBlockingCall(acquired, outcome) == acquired

\* the blocking provider method returns
BlockingReturn(id) ==
    LET r == req[id]
    IN  /\ r.pc = "calling"
        /\ ~r.stream
        /\ \E outcome \in (IF Cancelled(r) THEN {"cancel"} ELSE Outcomes) :
            LET r2 == [r EXCEPT !.results = Append(r.results, outcome)]
            IN  /\ scenario' = (scenario /\ (r.idx = 1 => outcome = "err")
                                         /\ (r.idx = 2 => outcome = "ok"))
                /\ \E acquired \in Acquired(outcome) :
                      bodies' = bodies + Left(acquired,
                                              ClosedByBlockingCall(acquired, outcome),
                                              FALSE)
                /\ IF outcome # "ok"
                   THEN /\ state' = RecordFailure(state, Key(r), threshold)
                        /\ lastOp' = Op("RecordFailure", Key(r))
                        /\ failedSince' = MapSet(failedSince, Key(r),
                                                 MapGet(failedSince, Key(r), 0) + 1)
                        /\ recorded' = MapSet(recorded, Key(r),
                                              MapGet(recorded, Key(r), 0) + 1)
                        /\ invocations' = invocations
                        /\ req' = [req EXCEPT ![id] = Continue(r2)]
                        /\ last' = last
                   ELSE /\ state' = ResetModel(state, Key(r))
                        /\ lastOp' = Op("ResetModel", Key(r))
                        /\ failedSince' = MapSet(failedSince, Key(r), 0)
                        /\ recorded' = MapSet(recorded, Key(r), 0)
                        /\ invocations' = MapSet(invocations, Key(r), 0)
                        /\ req' = [req EXCEPT ![id] = IdleReq]
                        /\ last' = Response(r2, <<200>>, r.idx, -1, Key(r), "")
    /\ UNCHANGED <<config, scan, outgoing, expansion, conv, lookup, pump, retryLog, nStarted, overlap>>

\* a stream that cannot be opened is treated like a failed blocking call
StreamOpenFallsBack(id) ==
    LET r == req[id]
    IN  /\ r.pc = "calling"
        /\ r.stream
        /\ \E outcome \in Outcomes :
            LET r2 == [r EXCEPT !.results = Append(r.results, outcome)]
            IN  IF outcome # "ok"
                THEN /\ state' = RecordFailure(state, Key(r), threshold)
                     /\ lastOp' = Op("RecordFailure", Key(r))
                     /\ failedSince' = MapSet(failedSince, Key(r),
                                              MapGet(failedSince, Key(r), 0) + 1)
                     /\ recorded' = MapSet(recorded, Key(r),
                                           MapGet(recorded, Key(r), 0) + 1)
                     /\ invocations' = invocations
                     /\ req' = [req EXCEPT ![id] = Continue(r2)]
                     /\ last' = last
                ELSE /\ req' = [req EXCEPT ![id] = [r2 EXCEPT !.pc = "streaming"]]
                     /\ UNCHANGED <<state, failedSince, recorded, invocations, last, lastOp>>
    /\ UNCHANGED <<config, scan, outgoing, expansion, conv, bodies, lookup, pump, retryLog, scenario, nStarted, overlap>>

\* StreamChat/StreamComplete, a status other than 200: the body is read and
\* closed before the error is returned; behind a 200 the body goes to the
\* producer goroutine, open
ClosedByStreamCall(acquired, outcome) == acquired /\ outcome # "ok"

\* StreamChat/StreamComplete returns: an error, or the channel
StreamOpen(id) ==
    LET r == req[id]
    IN  /\ r.pc = "calling"
        /\ r.stream
        /\ \E outcome \in Outcomes :
            LET r2 == [r EXCEPT !.results = Append(r.results, outcome)]
            IN  /\ \E acquired \in Acquired(outcome) :
                      bodies' = bodies + Left(acquired,
                                              ClosedByStreamCall(acquired, outcome),
                                              outcome = "ok")
                /\ IF outcome # "ok"
                   THEN /\ state' = RecordFailure(state, Key(r), threshold)
                        /\ lastOp' = Op("RecordFailure", Key(r))
                        /\ failedSince' = MapSet(failedSince, Key(r),
                                                 MapGet(failedSince, Key(r), 0) + 1)
                        /\ recorded' = MapSet(recorded, Key(r),
                                              MapGet(recorded, Key(r), 0) + 1)
                        /\ invocations' = invocations
                        /\ req' = [req EXCEPT ![id] = IdleReq]
                        /\ last' = Response(r2, <<500>>, 0, -1, ErrorOf(Key(r), outcome), "")
                   ELSE /\ req' = [req EXCEPT ![id] = [r2 EXCEPT !.pc = "streaming"]]
                        /\ UNCHANGED <<state, failedSince, recorded, invocations, last, lastOp>>
    /\ UNCHANGED <<config, scan, outgoing, expansion, conv, lookup, pump, retryLog, scenario, nStarted, overlap>>

\* the pump, from the first chunk to its return: the channel is closed and the
\* pump leaves its loop, writes the terminator and resets the key; or the loop
\* panics on a chunk, before or after the status line has gone out, and the
\* handler ends there
StreamClose(id) ==
    LET r == req[id]
    IN  /\ r.pc = "streaming"
        /\ \E cause \in PumpEnds(r.chat) :
            IF cause = "panic"
            THEN /\ \E status \in {<< >>, <<200>>} :
                        last' = Response(r, status, r.idx, -1, "", cause)
                 /\ UNCHANGED <<state, lastOp, failedSince, recorded, invocations>>
            ELSE /\ state' = ResetModel(state, Key(r))
                 /\ lastOp' = Op("ResetModel", Key(r))
                 /\ failedSince' = IF cause = "eof"
                                   THEN MapSet(failedSince, Key(r), 0)
                                   ELSE failedSince
                 /\ recorded' = MapSet(recorded, Key(r), 0)
                 /\ invocations' = MapSet(invocations, Key(r), 0)
                 /\ last' = Response(r, <<200>>, r.idx, -1, "[DONE]", cause)
        /\ req' = [req EXCEPT ![id] = IdleReq]
        /\ UNCHANGED <<config, scan, outgoing, expansion, conv, bodies, lookup, pump, retryLog, scenario, nStarted, overlap>>

\* handleAllProvidersFailed, first critical section: GetProgressiveTimeout
ReadTimeout(id) ==
    LET r == req[id]
    IN  /\ r.pc = "exhausted"
        /\ req' = [req EXCEPT ![id] = [r EXCEPT !.pc = "increment",
                                                !.timeout = GetProgressiveTimeout(state)]]
        /\ UNCHANGED <<config, invocations, scan, outgoing, expansion, conv, bodies, lookup, pump, state, last, retryLog, failedSince, recorded, scenario, nStarted,
                       overlap, lastOp>>

\* the 503 is written without IncrementTimeout being called
handleAllProvidersFailedNoAdvance(id) ==
    LET r == req[id]
        errMsg == IF lastErr(r) # "" THEN lastErr(r) ELSE "all providers failed"
    IN  /\ r.pc = "increment"
        /\ retryLog' = Append(retryLog, r.timeout \div 1000)
        /\ last' = Response(r, <<503>>, 0, r.timeout \div 1000, errMsg, "")
        /\ req' = [req EXCEPT ![id] = IdleReq]
        /\ UNCHANGED <<config, invocations, scan, outgoing, expansion, conv, bodies, lookup, pump, state, failedSince, recorded, scenario, nStarted, overlap, lastOp>>

\* the 503 always carries the literal message
handleAllProvidersFailedLiteral(id) ==
    LET r == req[id]
    IN  /\ r.pc = "increment"
        /\ state' = IncrementTimeout(state, config.Thresholds.MaxTimeout)
        /\ lastOp' = Op("IncrementTimeout", "")
        /\ retryLog' = Append(retryLog, r.timeout \div 1000)
        /\ last' = Response([r EXCEPT !.advances = r.advances + 1],
                            <<503>>, 0, r.timeout \div 1000, "all providers failed", "")
        /\ req' = [req EXCEPT ![id] = IdleReq]
        /\ UNCHANGED <<config, invocations, scan, outgoing, expansion, conv, bodies, lookup, pump, failedSince, recorded, scenario, nStarted, overlap>>

\* handleAllProvidersFailed, second critical section and the 503
handleAllProvidersFailed(id) ==
    LET r == req[id]
        errMsg == IF lastErr(r) # "" THEN lastErr(r) ELSE "all providers failed"
    IN  /\ r.pc = "increment"
        /\ state' = IncrementTimeout(state, config.Thresholds.MaxTimeout)
        /\ lastOp' = Op("IncrementTimeout", "")
        /\ retryLog' = Append(retryLog, r.timeout \div 1000)
        /\ last' = Response([r EXCEPT !.advances = r.advances + 1],
                            <<503>>, 0, r.timeout \div 1000, errMsg, "")
        /\ req' = [req EXCEPT ![id] = IdleReq]
        /\ UNCHANGED <<config, invocations, scan, outgoing, expansion, conv, bodies, lookup, pump, failedSince, recorded, scenario, nStarted, overlap>>

----------------------------------------------------------------------------
(* One stream, chunk by chunk: the producer goroutine of StreamChat and         *)
(* StreamComplete, its channel, and the loop of the pump                        *)

\* a nil pointer
Nil == "nil"

NoPump ==
    [owner |-> 0, chat |-> FALSE, key |-> "", requestModel |-> "",
     backendModel |-> "", id |-> "", created |-> 0, lines |-> 0,
     upstream |-> << >>, sending |-> << >>, ch |-> << >>, closed |-> TRUE,
     end |-> "", cancelled |-> FALSE, events |-> << >>, done |-> FALSE,
     faulted |-> FALSE, body |-> ""]

\* time.Now().Unix(): the clock ticks with every request and every upstream line
Now(lines) == nStarted + lines

\* the request context is done: the client went away, or the handler has returned
CtxDone(p) == p.cancelled \/ p.owner = 0

\* what a ChatCompletionChunk line of the upstream becomes in the producer: the
\* choices get their Delta, their Message stays nil
ChatResponseOf(p, n, nChoices) ==
    [ID |-> "chatcmpl-upstream", Created |-> Now(n), Model |-> p.backendModel,
     Choices |-> [i \in 1..nChoices |->
                    [Index |-> i - 1, Message |-> Nil,
                     Delta |-> [Role |-> "assistant", Content |-> n],
                     FinishReason |-> ""]]]

\* a CompletionResponse line of the upstream, unmarshalled as it is
CompletionResponseOf(p, n) ==
    [ID |-> "cmpl-upstream", Created |-> Now(n), Model |-> p.backendModel,
     Choices |-> <<[Index |-> 0, Text |-> n, FinishReason |-> ""]>>]

\* the chunks the scanner can return next (a chat chunk with a choice or with
\* none), and the ways its loop can end; lines the loop skips are left out.
\* Once the context is done the next read of the body fails, but the scanner
\* first returns the lines it has already buffered.
Lines(p) ==
    (IF CtxDone(p) THEN {"cancel"} ELSE {"eof", "readerr"}) \cup
    (IF p.lines < MaxLines
     THEN {"choices"} \cup (IF p.chat THEN {"nochoices"} ELSE {})
     ELSE {})

\* the pump copies the upstream's model name into the event
CompletionChunkKeepsModel(p, resp, requestModel) ==
    [resp EXCEPT !.ID = p.id, !.Created = p.created]

\* streamV1Completions, loop body: the event written for one chunk
CompletionChunk(p, resp, requestModel) ==
    [resp EXCEPT !.ID = p.id, !.Created = p.created, !.Model = requestModel]

\* streamV1ChatCompletions, loop body: the event written for one chunk whose
\* choices all carry a Message
ChatChunk(p, resp, requestModel) ==
    [ID |-> p.id, Created |-> p.created, Model |-> requestModel,
     Choices |-> [i \in 1..Len(resp.Choices) |->
                    [Index |-> resp.Choices[i].Index,
                     Delta |-> [Role |-> resp.Choices[i].Message.Role,
                                Content |-> resp.Choices[i].Message.Content],
                     FinishReason |-> resp.Choices[i].FinishReason]]]

\* c.Message.Role with c.Message == nil
Faults(p, resp) ==
    p.chat /\ \E i \in 1..Len(resp.Choices) : resp.Choices[i].Message = Nil

\* the channel and the producer goroutine are created, the pump sets the
\* headers and chooses completionID and created
PumpStart(id) ==
    LET r == req[id]
    IN  /\ r.pc = "streaming"
        /\ pump.owner = 0
        /\ pump' = [NoPump EXCEPT
                        !.owner = id,
                        !.chat = r.chat,
                        !.key = Key(r),
                        !.requestModel = r.model,
                        !.backendModel = Chain(r)[r.idx].model,
                        !.id = (IF r.chat THEN "chatcmpl-" ELSE "cmpl-")
                                   \o ToString(nStarted),
                        !.created = Now(0),
                        !.closed = FALSE,
                        !.body = "open"]
        /\ UNCHANGED <<config, invocations, scan, outgoing, expansion, conv, bodies, state, req, last, retryLog, failedSince, recorded, scenario,
                       nStarted, overlap, lastOp, lookup>>

\* producer: scanner.Scan() and the handling of one line; leaving the loop
\* runs the deferred resp.Body.Close() and close(ch)
Scan ==
    /\ ~pump.closed
    /\ pump.sending = << >>
    /\ \E line \in Lines(pump) :
          IF line \in StreamEnds
          THEN pump' = [pump EXCEPT !.closed = TRUE, !.end = line, !.body = "closed"]
          ELSE LET n == pump.lines + 1
                   resp == IF pump.chat
                           THEN ChatResponseOf(pump, n,
                                               IF line = "choices" THEN 1 ELSE 0)
                           ELSE CompletionResponseOf(pump, n)
               IN  pump' = [pump EXCEPT
                               !.lines = n,
                               !.upstream = Append(@, resp),
                               !.ch = IF Len(pump.ch) < BufferCap
                                      THEN Append(@, resp) ELSE @,
                               !.sending = IF Len(pump.ch) < BufferCap
                                           THEN << >> ELSE <<resp>>]
    /\ UNCHANGED <<config, invocations, scan, outgoing, expansion, conv, bodies, state, req, last, retryLog, failedSince, recorded, scenario,
                   nStarted, overlap, lastOp, lookup>>

\* producer: ch <- resp goes through once the channel has room
Send ==
    /\ ~pump.closed
    /\ pump.sending # << >>
    /\ Len(pump.ch) < BufferCap
    /\ pump' = [pump EXCEPT !.ch = Append(@, pump.sending[1]), !.sending = << >>]
    /\ UNCHANGED <<config, invocations, scan, outgoing, expansion, conv, bodies, state, req, last, retryLog, failedSince, recorded, scenario,
                   nStarted, overlap, lastOp, lookup>>

\* the client goes away while the pump is running
Cancel(id) ==
    /\ req[id].pc = "streaming"
    /\ pump.owner = id
    /\ ~pump.cancelled
    /\ pump' = [pump EXCEPT !.cancelled = TRUE]
    /\ UNCHANGED <<config, invocations, scan, outgoing, expansion, conv, bodies, state, req, last, retryLog, failedSince, recorded, scenario,
                   nStarted, overlap, lastOp, lookup>>

\* pump: one iteration of `for resp := range stream`
Relay(id) ==
    LET r == req[id]
        resp == Head(pump.ch)
    IN  /\ r.pc = "streaming"
        /\ pump.owner = id
        /\ pump.ch # << >>
        /\ IF Faults(pump, resp)
           THEN /\ pump' = [pump EXCEPT !.ch = Tail(@), !.owner = 0, !.faulted = TRUE]
                /\ req' = [req EXCEPT ![id] = IdleReq]
                /\ last' = Response(r, IF pump.events = << >> THEN << >> ELSE <<200>>,
                                    r.idx, -1, "", "panic")
           ELSE /\ pump' = [pump EXCEPT
                                !.ch = Tail(@),
                                !.events = Append(@,
                                    IF pump.chat
                                    THEN ChatChunk(pump, resp, r.model)
                                    ELSE CompletionChunk(pump, resp, r.model))]
                /\ UNCHANGED <<req, last>>
        /\ UNCHANGED <<config, invocations, scan, outgoing, expansion, conv, bodies, state, retryLog, failedSince, recorded, scenario, nStarted,
                       overlap, lastOp, lookup>>

\* pump: the channel is closed and drained; "data: [DONE]", then ResetModel
Finish(id) ==
    LET r == req[id]
    IN  /\ r.pc = "streaming"
        /\ pump.owner = id
        /\ pump.ch = << >>
        /\ pump.closed
        /\ pump' = [pump EXCEPT !.owner = 0, !.done = TRUE]
        /\ state' = ResetModel(state, Key(r))
        /\ lastOp' = Op("ResetModel", Key(r))
        /\ failedSince' = IF pump.end = "eof"
                          THEN MapSet(failedSince, Key(r), 0)
                          ELSE failedSince
        /\ recorded' = MapSet(recorded, Key(r), 0)
        /\ invocations' = MapSet(invocations, Key(r), 0)
        /\ last' = Response(r, <<200>>, r.idx, -1, "[DONE]", pump.end)
        /\ req' = [req EXCEPT ![id] = IdleReq]
        /\ UNCHANGED <<config, scan, outgoing, expansion, conv, bodies, retryLog, scenario, nStarted, overlap, lookup>>

----------------------------------------------------------------------------
(* One blocking chat exchange, value by value: the JSON the upstream sends,     *)
(* what the provider's Chat returns, what the handler writes to the client.     *)
(* The later revision passes the OpenAI response through; the earlier revision  *)
(* bridges it to the Ollama form in the provider and back in the handler.       *)

\* a Go pointer: nil, or the address of a value
NilPtr == << >>

Ptr(v) == <<v>>

Deref(p) == p[1]

\* a JSON member that may be absent: absent, or present with a value
Absent == << >>

Present(v) == <<v>>

Roles == {"assistant", "user"}

Contents == {"OK", ""}

FinishReasons == {"stop", "length"}

\* the objects an upstream can send as one element of "choices"
JSONChoices ==
    [message : {Absent} \cup { Present([role |-> ro, content |-> co]) :
                                  ro \in Roles, co \in Contents },
     finish_reason : {Absent} \cup { Present(f) : f \in FinishReasons }]

\* behind the first choice only these are followed
JSONLaterChoices ==
    { [message |-> Present([role |-> "assistant", content |-> "later"]),
       finish_reason |-> Present("stop")],
      [message |-> Absent, finish_reason |-> Absent] }

RECURSIVE JSONChoiceLists(_)
JSONChoiceLists(n) ==
    IF n = 0 THEN {<< >>}
    ELSE IF n = 1 THEN { <<c>> : c \in JSONChoices }
    ELSE { Append(l, c) : l \in JSONChoiceLists(n - 1), c \in JSONLaterChoices }

\* the bodies an upstream can answer a chat request with, status 200
JSONChatResponses ==
    [model   : {Absent, Present("m1")},
     created : {Absent, Present(1700000000)},
     choices : UNION { JSONChoiceLists(n) : n \in 0..MaxChoices },
     usage   : {Absent} \cup { Present([prompt_tokens |-> pt, completion_tokens |-> ct,
                                        total_tokens |-> pt + ct]) :
                                  pt \in 0..MaxTokens, ct \in 0..MaxTokens }]

\* encoding/json into a string or integer field: an absent member leaves the
\* zero value
MemberOr(member, zero) == IF member = Absent THEN zero ELSE member[1]

\* json.NewDecoder(resp.Body).Decode(&chatResp), openai.ChatCompletionResponse
DecodeChatCompletionResponse(json) ==
    [ID      |-> "",
     Object  |-> "",
     Created |-> MemberOr(json.created, 0),
     Model   |-> MemberOr(json.model, ""),
     Choices |-> [i \in 1..Len(json.choices) |->
                    [Index        |-> 0,
                     Message      |-> IF json.choices[i].message = Absent
                                      THEN NilPtr
                                      ELSE Ptr([Role    |-> json.choices[i].message[1].role,
                                                Content |-> json.choices[i].message[1].content]),
                     FinishReason |-> MemberOr(json.choices[i].finish_reason, "")]],
     Usage   |-> IF json.usage = Absent
                 THEN NilPtr
                 ELSE Ptr([PromptTokens     |-> json.usage[1].prompt_tokens,
                           CompletionTokens |-> json.usage[1].completion_tokens,
                           TotalTokens      |-> json.usage[1].total_tokens])]

\* OpenCodeZenProvider.convertChatResponse: OpenAI form to Ollama form
convertChatResponse(resp) ==
    IF Len(resp.Choices) = 0
    THEN [Model |-> resp.Model, CreatedAt |-> 0, Message |-> NilPtr, Done |-> TRUE,
          Metrics |-> NilPtr]
    ELSE LET choice == resp.Choices[1]
         IN  [Model     |-> resp.Model,
              CreatedAt |-> resp.Created,
              Message   |-> IF choice.Message # NilPtr
                            THEN Ptr([Role    |-> Deref(choice.Message).Role,
                                      Content |-> Deref(choice.Message).Content])
                            ELSE NilPtr,
              Done      |-> choice.FinishReason # "",
              Metrics   |-> IF resp.Usage # NilPtr
                            THEN Ptr([PromptEvalCount |-> Deref(resp.Usage).PromptTokens,
                                      EvalCount       |-> Deref(resp.Usage).CompletionTokens])
                            ELSE NilPtr]

\* resp.Message.Content with resp.Message == nil
DerefsNilMessage(resp) == resp.Message = NilPtr

\* ollamaChatToOpenAIResponse: Ollama form to OpenAI form, for a response whose
\* Message is not nil
ollamaChatToOpenAIResponse(resp, model) ==
    LET promptTokens     == IF resp.Metrics # NilPtr
                            THEN Deref(resp.Metrics).PromptEvalCount ELSE 0
        completionTokens == IF resp.Metrics # NilPtr
                            THEN Deref(resp.Metrics).EvalCount ELSE 0
    IN  [ID      |-> "chatcmpl-" \o ToString(nStarted),
         Object  |-> "chat.completion",
         Created |-> Now(0),
         Model   |-> model,
         Choices |-> <<[Index        |-> 0,
                        Message      |-> Ptr([Role    |-> "assistant",
                                              Content |-> Deref(resp.Message).Content]),
                        FinishReason |-> "stop"]>>,
         Usage   |-> Ptr([PromptTokens     |-> promptTokens,
                          CompletionTokens |-> completionTokens,
                          TotalTokens      |-> promptTokens + completionTokens])]

\* OpenCodeZenProvider.Generate, behind Chat: the chat response as a generate
\* response, for a chat response whose Message is not nil
GenerateResponseOf(chatResp) ==
    [Model     |-> chatResp.Model,
     CreatedAt |-> chatResp.CreatedAt,
     Response  |-> Deref(chatResp.Message).Content,
     Done      |-> chatResp.Done,
     Metrics   |-> chatResp.Metrics]

\* json.NewEncoder(w).Encode(resp), openai.ChatCompletionResponse: every member
\* but usage is written whatever its value; a nil Message is written as null,
\* which reads like an absent member
EncodeChatCompletionResponse(resp) ==
    [id      |-> Present(resp.ID),
     object  |-> Present(resp.Object),
     created |-> Present(resp.Created),
     model   |-> Present(resp.Model),
     choices |-> [i \in 1..Len(resp.Choices) |->
                    [index         |-> Present(resp.Choices[i].Index),
                     message       |-> IF resp.Choices[i].Message = NilPtr
                                       THEN Absent
                                       ELSE Present([role    |-> Deref(resp.Choices[i].Message).Role,
                                                     content |-> Deref(resp.Choices[i].Message).Content]),
                     finish_reason |-> Present(resp.Choices[i].FinishReason)]],
     usage   |-> IF resp.Usage = NilPtr
                 THEN Absent
                 ELSE Present([prompt_tokens     |-> Deref(resp.Usage).PromptTokens,
                               completion_tokens |-> Deref(resp.Usage).CompletionTokens,
                               total_tokens      |-> Deref(resp.Usage).TotalTokens])]

\* One exchange is followed per behaviour: an exchange reads nothing that an
\* earlier one wrote.
\* what one exchange leaves behind: the upstream's JSON, its decoded form, what
\* the provider method returned (nil behind a panic), whether the goroutine
\* panicked, and the JSON the handler wrote (nil when it wrote none)
Exchange(op, json, decoded, returned, faulted, written) ==
    [op |-> op, requestModel |-> "M", json |-> json, decoded |-> decoded,
     returned |-> returned, faulted |-> faulted, written |-> written]

\* handleV1ChatCompletions of the later revision, blocking branch with a
\* successful OpenAIProvider.Chat: the decoded response is encoded as it is
PassThroughChat ==
    /\ conv = NoConv
    /\ \E json \in JSONChatResponses :
          LET resp == DecodeChatCompletionResponse(json)
          IN  conv' = Exchange("PassThroughChat", json, resp, Ptr(resp), FALSE,
                               Ptr(EncodeChatCompletionResponse(resp)))
    /\ UNCHANGED <<config, invocations, scan, outgoing, expansion, state, req, last, retryLog, failedSince, scenario, nStarted,
                   overlap, lastOp, lookup, pump, recorded, bodies>>

\* handleV1ChatCompletions of the earlier revision, blocking branch with a
\* successful OpenCodeZenProvider.Chat: convertChatResponse in the provider,
\* ollamaChatToOpenAIResponse in the handler
BridgedChat ==
    /\ conv = NoConv
    /\ \E json \in JSONChatResponses :
          LET decoded == DecodeChatCompletionResponse(json)
              resp    == convertChatResponse(decoded)
          IN  conv' = IF DerefsNilMessage(resp)
                      THEN Exchange("BridgedChat", json, decoded, Ptr(resp), TRUE, NilPtr)
                      ELSE Exchange("BridgedChat", json, decoded, Ptr(resp), FALSE,
                                    Ptr(EncodeChatCompletionResponse(
                                            ollamaChatToOpenAIResponse(resp, "M"))))
    /\ UNCHANGED <<config, invocations, scan, outgoing, expansion, state, req, last, retryLog, failedSince, scenario, nStarted,
                   overlap, lastOp, lookup, pump, recorded, bodies>>

\* OpenCodeZenProvider.Generate with a successful Chat
BridgedGenerate ==
    /\ conv = NoConv
    /\ \E json \in JSONChatResponses :
          LET decoded  == DecodeChatCompletionResponse(json)
              chatResp == convertChatResponse(decoded)
          IN  conv' = IF DerefsNilMessage(chatResp)
                      THEN Exchange("BridgedGenerate", json, decoded, NilPtr, TRUE, NilPtr)
                      ELSE Exchange("BridgedGenerate", json, decoded,
                                    Ptr(GenerateResponseOf(chatResp)), FALSE, NilPtr)
    /\ UNCHANGED <<config, invocations, scan, outgoing, expansion, state, req, last, retryLog, failedSince, scenario, nStarted,
                   overlap, lastOp, lookup, pump, recorded, bodies>>

----------------------------------------------------------------------------
(* The producer goroutines, line by line: the lines bufio.Scanner returns from *)
(* an upstream body, and the values the loop sends on the channel.  The        *)
(* channel is received from as in the pump above; here only what is sent, and  *)
(* in which order, is followed.                                                *)

\* a payload that is not a JSON text
Text(t) == [json |-> FALSE, text |-> t, value |-> << >>]

\* a payload that is the JSON text of the object v
Object(v) == [json |-> TRUE, text |-> "", value |-> <<v>>]

\* a line: what it begins with ("data: ", "data:" without the space, or
\* nothing that matters) and the rest of it
Line(field, payload) == [field |-> field, payload |-> payload]

\* strings.HasPrefix(line, "data: ")
HasDataPrefix(line) == line.field = "data: "

\* strings.TrimPrefix(line, "data: ")
TrimDataPrefix(line) == line.payload

\* json.Unmarshal of the payload into a struct fails
UnmarshalFails(data) == ~data.json

\* json.Unmarshal(scanner.Bytes(), ...) of a whole line fails: the line is not
\* a JSON text when anything precedes the object
UnmarshalLineFails(line) == line.field # "" \/ ~line.payload.json

\* openai.IsStreamDone
IsStreamDone(data) == data = Text("[DONE]") \/ data = Text("data: [DONE]")

\* one element of "choices" of a streamed chunk, as the upstream writes it
JSONChunkChoice(content, finish) ==
    [delta |-> [role |-> "assistant", content |-> content], text |-> content,
     finish_reason |-> finish]

\* the chunk objects an SSE upstream can send
JSONChunks ==
    { [model |-> Present("m1"), choices |-> cs] :
        cs \in { << >>,
                 <<JSONChunkChoice("a", Absent)>>,
                 <<JSONChunkChoice("b", Absent)>>,
                 <<JSONChunkChoice("b", Present("stop"))>>,
                 <<JSONChunkChoice("a", Present("length")), JSONChunkChoice("b", Absent)>> } }

\* the lines of an SSE upstream body
SSELines ==
    { Line("data: ", Text("[DONE]")),
      Line("data: ", Text("data: [DONE]")),
      Line("data: ", Text("{oops")),
      Line("", Text("")),
      Line("data:", Object([model |-> Present("m1"),
                            choices |-> <<JSONChunkChoice("a", Absent)>>])) }
    \cup { Line("data: ", Object(c)) : c \in JSONChunks }

\* the objects an Ollama upstream can send, one per line
JSONOllamaResponses ==
    { [model |-> Present("m1"),
       message |-> Present([role |-> "assistant", content |-> co]),
       response |-> Present(co),
       done |-> d] :
        co \in {"a", "b"}, d \in {Absent, Present(FALSE), Present(TRUE)} }

\* the lines of an Ollama upstream body
NDJSONLines ==
    { Line("", Text("")), Line("", Text("{oops")) }
    \cup { Line("", Object(o)) : o \in JSONOllamaResponses }

RECURSIVE BodiesOver(_, _)
BodiesOver(lines, n) ==
    IF n = 0 THEN {<< >>}
    ELSE LET shorter == BodiesOver(lines, n - 1)
         IN  shorter \cup { Append(b, l) : b \in { x \in shorter : Len(x) = n - 1 },
                                           l \in lines }

\* how scanner.Scan() comes to return false: the body ended, a read failed
\* (a line over the scanner's buffer included), the context was cancelled
ScanEnds == {"eof", "readerr", "cancel"}

\* openai.StreamResponseToChunk: json.Unmarshal into a ChatCompletionChunk
StreamResponseToChunk(v) ==
    [ID      |-> "",
     Object  |-> "",
     Created |-> 0,
     Model   |-> MemberOr(v.model, ""),
     Choices |-> [i \in 1..Len(v.choices) |->
                    [Index        |-> 0,
                     Delta        |-> [Role    |-> v.choices[i].delta.role,
                                       Content |-> v.choices[i].delta.content],
                     FinishReason |-> IF v.choices[i].finish_reason = Absent
                                      THEN NilPtr
                                      ELSE Ptr(v.choices[i].finish_reason[1])]]]

\* OpenAIProvider.StreamChat, body of the loop behind the parse: the
\* ChatCompletionResponse built from a chunk
ChatResponseOfChunk(chunk) ==
    [ID      |-> chunk.ID,
     Object  |-> chunk.Object,
     Created |-> chunk.Created,
     Model   |-> chunk.Model,
     Choices |-> [i \in 1..Len(chunk.Choices) |->
                    [Index        |-> chunk.Choices[i].Index,
                     Message      |-> NilPtr,
                     Delta        |-> Ptr(chunk.Choices[i].Delta),
                     FinishReason |-> IF chunk.Choices[i].FinishReason = NilPtr
                                      THEN ""
                                      ELSE Deref(chunk.Choices[i].FinishReason)]]]

\* json.Unmarshal into an openai.CompletionResponse
DecodeCompletionResponse(v) ==
    [ID      |-> "",
     Created |-> 0,
     Model   |-> MemberOr(v.model, ""),
     Choices |-> [i \in 1..Len(v.choices) |->
                    [Index        |-> 0,
                     Text         |-> v.choices[i].text,
                     FinishReason |-> MemberOr(v.choices[i].finish_reason, "")]]]

\* OpenCodeZenProvider.StreamChat: the ollama.ChatResponse built from one
\* choice of a chunk
OllamaChatResponseOfChoice(chunk, i) ==
    [Model   |-> chunk.Model,
     Message |-> Ptr([Role    |-> chunk.Choices[i].Delta.Role,
                      Content |-> chunk.Choices[i].Delta.Content]),
     Done    |-> chunk.Choices[i].FinishReason # NilPtr]

\* json.Unmarshal into an ollama.ChatResponse
DecodeOllamaChatResponse(v) ==
    [Model   |-> MemberOr(v.model, ""),
     Message |-> IF v.message = Absent
                 THEN NilPtr
                 ELSE Ptr([Role    |-> v.message[1].role,
                           Content |-> v.message[1].content]),
     Done    |-> MemberOr(v.done, FALSE)]

\* json.Unmarshal into an ollama.GenerateResponse
DecodeOllamaGenerateResponse(v) ==
    [Model    |-> MemberOr(v.model, ""),
     Response |-> MemberOr(v.response, ""),
     Done     |-> MemberOr(v.done, FALSE)]

\* what a loop has done when it is left: the values sent, and whether it was
\* left by `break`
LoopResult(out, broke) == [out |-> out, broke |-> broke]

\* OpenAIProvider.StreamChat, the loop of the producer from line i on
RECURSIVE OpenAIStreamChatLoop(_, _, _)
OpenAIStreamChatLoop(body, i, out) ==
    IF i > Len(body)
    THEN LoopResult(out, FALSE)
    ELSE LET line == body[i]
             data == TrimDataPrefix(line)
         IN  IF ~HasDataPrefix(line)
             THEN OpenAIStreamChatLoop(body, i + 1, out)
             ELSE IF IsStreamDone(data)
             THEN LoopResult(out, TRUE)
             ELSE IF UnmarshalFails(data)
             THEN OpenAIStreamChatLoop(body, i + 1, out)
             ELSE OpenAIStreamChatLoop(body, i + 1,
                      Append(out, ChatResponseOfChunk(StreamResponseToChunk(data.value[1]))))

\* OpenAIProvider.StreamComplete, the loop of the producer from line i on
RECURSIVE OpenAIStreamCompleteLoop(_, _, _)
OpenAIStreamCompleteLoop(body, i, out) ==
    IF i > Len(body)
    THEN LoopResult(out, FALSE)
    ELSE LET line == body[i]
             data == TrimDataPrefix(line)
         IN  IF ~HasDataPrefix(line)
             THEN OpenAIStreamCompleteLoop(body, i + 1, out)
             ELSE IF data = Text("[DONE]")
             THEN LoopResult(out, TRUE)
             ELSE IF UnmarshalFails(data)
             THEN OpenAIStreamCompleteLoop(body, i + 1, out)
             ELSE OpenAIStreamCompleteLoop(body, i + 1,
                      Append(out, DecodeCompletionResponse(data.value[1])))

\* OpenCodeZenProvider.StreamChat, the loop of the producer from line i on:
\* one value is sent per choice of a chunk
RECURSIVE OpenCodeZenStreamChatLoop(_, _, _)
OpenCodeZenStreamChatLoop(body, i, out) ==
    IF i > Len(body)
    THEN LoopResult(out, FALSE)
    ELSE LET line == body[i]
             data == TrimDataPrefix(line)
         IN  IF ~HasDataPrefix(line)
             THEN OpenCodeZenStreamChatLoop(body, i + 1, out)
             ELSE IF IsStreamDone(data)
             THEN LoopResult(out, TRUE)
             ELSE IF UnmarshalFails(data)
             THEN OpenCodeZenStreamChatLoop(body, i + 1, out)
             ELSE LET chunk == StreamResponseToChunk(data.value[1])
                  IN  OpenCodeZenStreamChatLoop(body, i + 1,
                          out \o [c \in 1..Len(chunk.Choices) |->
                                     OllamaChatResponseOfChoice(chunk, c)])

\* the loop goes on behind a chunk whose done is true
RECURSIVE OllamaStreamChatLoopIgnoresDone(_, _, _)
OllamaStreamChatLoopIgnoresDone(body, i, out) ==
    IF i > Len(body)
    THEN LoopResult(out, FALSE)
    ELSE IF UnmarshalLineFails(body[i])
    THEN OllamaStreamChatLoopIgnoresDone(body, i + 1, out)
    ELSE OllamaStreamChatLoopIgnoresDone(body, i + 1,
             Append(out, DecodeOllamaChatResponse(body[i].payload.value[1])))

\* OllamaProvider.StreamChat, the loop of the producer from line i on
RECURSIVE OllamaStreamChatLoop(_, _, _)
OllamaStreamChatLoop(body, i, out) ==
    IF i > Len(body)
    THEN LoopResult(out, FALSE)
    ELSE IF UnmarshalLineFails(body[i])
    THEN OllamaStreamChatLoop(body, i + 1, out)
    ELSE LET chatResp == DecodeOllamaChatResponse(body[i].payload.value[1])
         IN  IF chatResp.Done
             THEN LoopResult(Append(out, chatResp), TRUE)
             ELSE OllamaStreamChatLoop(body, i + 1, Append(out, chatResp))

\* OllamaProvider.StreamGenerate, the loop of the producer from line i on
RECURSIVE OllamaStreamGenerateLoop(_, _, _)
OllamaStreamGenerateLoop(body, i, out) ==
    IF i > Len(body)
    THEN LoopResult(out, FALSE)
    ELSE IF UnmarshalLineFails(body[i])
    THEN OllamaStreamGenerateLoop(body, i + 1, out)
    ELSE LET genResp == DecodeOllamaGenerateResponse(body[i].payload.value[1])
         IN  IF genResp.Done
             THEN LoopResult(Append(out, genResp), TRUE)
             ELSE OllamaStreamGenerateLoop(body, i + 1, Append(out, genResp))

\* what a producer leaves behind when its goroutine has returned: the lines
\* the scanner returned, why the loop was left, what was sent on the channel
\* before the deferred close(ch)
Produced(op, body, scanEnd, result) ==
    [op |-> op, body |-> body,
     end |-> IF result.broke THEN "break" ELSE scanEnd,
     out |-> result.out, closed |-> TRUE]

\* One producer is followed per behaviour: a producer reads nothing that an
\* earlier one wrote.
Produce(op, lines, result(_)) ==
    /\ scan = NoScan
    /\ \E body \in BodiesOver(lines, MaxBodyLines), scanEnd \in ScanEnds :
          scan' = Produced(op, body, scanEnd, result(body))
    /\ UNCHANGED <<config, invocations, state, req, last, retryLog, failedSince, scenario, nStarted,
                   overlap, lastOp, lookup, pump, recorded, bodies, conv, outgoing,
                   expansion>>

OpenAIStreamChat ==
    Produce("OpenAIProvider.StreamChat", SSELines,
            LAMBDA body : OpenAIStreamChatLoop(body, 1, << >>))

OpenAIStreamComplete ==
    Produce("OpenAIProvider.StreamComplete", SSELines,
            LAMBDA body : OpenAIStreamCompleteLoop(body, 1, << >>))

OpenCodeZenStreamChat ==
    Produce("OpenCodeZenProvider.StreamChat", SSELines,
            LAMBDA body : OpenCodeZenStreamChatLoop(body, 1, << >>))

OllamaStreamChat ==
    Produce("OllamaProvider.StreamChat", NDJSONLines,
            LAMBDA body : OllamaStreamChatLoop(body, 1, << >>))

OllamaStreamGenerate ==
    Produce("OllamaProvider.StreamGenerate", NDJSONLines,
            LAMBDA body : OllamaStreamGenerateLoop(body, 1, << >>))

----------------------------------------------------------------------------
(* The request a provider method sends upstream, member by member, next to the *)
(* chat request of the client it is built from.  Floats are written as         *)
(* integers; a nil slice, a nil map and a nil interface are written as nil     *)
(* pointers.                                                                   *)

\* the sampling options of a chat request, by their JSON names
OptionNames ==
    {"temperature", "top_p", "n", "stop", "max_tokens", "presence_penalty",
     "frequency_penalty", "logit_bias", "user", "response_format", "seed", "tools",
     "tool_choice"}

\* the chat requests a client can send: every option is absent or present
JSONChatRequests ==
    [temperature       : {Absent, Present(0), Present(1)},
     top_p             : {Absent, Present(1)},
     n                 : {Absent, Present(2)},
     stop              : {Absent, Present(<<"END">>)},
     max_tokens        : {Absent, Present(16)},
     presence_penalty  : {Absent, Present(1)},
     frequency_penalty : {Absent, Present(1)},
     logit_bias        : {Absent, Present("bias")},
     user              : {Absent, Present("u")},
     response_format   : {Absent, Present("json_object")},
     seed              : {Absent, Present(42)},
     tools             : {Absent, Present(<<"tool">>)},
     tool_choice       : {Absent, Present("auto")}]

\* json.NewDecoder(r.Body).Decode(&req), openai.ChatCompletionRequest
DecodeChatCompletionRequest(json) ==
    [Stream           |-> FALSE,
     Temperature      |-> json.temperature,
     TopP             |-> json.top_p,
     N                |-> json.n,
     Stop             |-> json.stop,
     MaxTokens        |-> json.max_tokens,
     PresencePenalty  |-> json.presence_penalty,
     FrequencyPenalty |-> json.frequency_penalty,
     LogitBias        |-> json.logit_bias,
     User             |-> MemberOr(json.user, ""),
     ResponseFormat   |-> json.response_format,
     Seed             |-> json.seed,
     Tools            |-> json.tools,
     ToolChoice       |-> json.tool_choice]

\* the ChatCompletionRequest literal of a provider method: model, messages and
\* the stream flag, every option at its zero value
NewChatCompletionRequest(stream) ==
    [Stream           |-> stream,
     Temperature      |-> NilPtr,
     TopP             |-> NilPtr,
     N                |-> NilPtr,
     Stop             |-> NilPtr,
     MaxTokens        |-> NilPtr,
     PresencePenalty  |-> NilPtr,
     FrequencyPenalty |-> NilPtr,
     LogitBias        |-> NilPtr,
     User             |-> "",
     ResponseFormat   |-> NilPtr,
     Seed             |-> NilPtr,
     Tools            |-> NilPtr,
     ToolChoice       |-> NilPtr]

\* `omitempty` on a pointer, slice, map or interface member
OmitEmpty(p) == IF p = NilPtr THEN Absent ELSE Present(Deref(p))

\* `omitempty` on a member of a value type: the zero value is left out
OmitZero(v, zero) == IF v = zero THEN Absent ELSE Present(v)

\* json.Marshal(req), openai.ChatCompletionRequest
EncodeChatCompletionRequest(r) ==
    [stream            |-> OmitZero(r.Stream, FALSE),
     temperature       |-> OmitEmpty(r.Temperature),
     top_p             |-> OmitEmpty(r.TopP),
     n                 |-> OmitEmpty(r.N),
     stop              |-> OmitEmpty(r.Stop),
     max_tokens        |-> OmitEmpty(r.MaxTokens),
     presence_penalty  |-> OmitEmpty(r.PresencePenalty),
     frequency_penalty |-> OmitEmpty(r.FrequencyPenalty),
     logit_bias        |-> OmitEmpty(r.LogitBias),
     user              |-> OmitZero(r.User, ""),
     response_format   |-> OmitEmpty(r.ResponseFormat),
     seed              |-> OmitEmpty(r.Seed),
     tools             |-> OmitEmpty(r.Tools),
     tool_choice       |-> OmitEmpty(r.ToolChoice)]

\* OpenAIProvider.Chat: the request built from opts
OpenAIChatRequest(opts) ==
    [NewChatCompletionRequest(FALSE) EXCEPT
        !.Temperature      = opts.Temperature,
        !.TopP             = opts.TopP,
        !.N                = opts.N,
        !.Stream           = FALSE,
        !.Stop             = opts.Stop,
        !.MaxTokens        = opts.MaxTokens,
        !.PresencePenalty  = opts.PresencePenalty,
        !.FrequencyPenalty = opts.FrequencyPenalty,
        !.LogitBias        = opts.LogitBias,
        !.User             = opts.User,
        !.ResponseFormat   = opts.ResponseFormat,
        !.Seed             = opts.Seed,
        !.Tools            = opts.Tools,
        !.ToolChoice       = opts.ToolChoice]

\* OpenAIProvider.StreamChat: the request built from opts
OpenAIStreamChatRequest(opts) ==
    [NewChatCompletionRequest(TRUE) EXCEPT
        !.Temperature      = opts.Temperature,
        !.TopP             = opts.TopP,
        !.N                = opts.N,
        !.Stop             = opts.Stop,
        !.MaxTokens        = opts.MaxTokens,
        !.PresencePenalty  = opts.PresencePenalty,
        !.FrequencyPenalty = opts.FrequencyPenalty,
        !.LogitBias        = opts.LogitBias,
        !.User             = opts.User]

\* openaiRequestToOllamaOptions: &ollama.Options{} with temperature, top_p and
\* stop copied when the client sent them
openaiRequestToOllamaOptions(r) ==
    [Temperature |-> IF r.Temperature # NilPtr THEN Deref(r.Temperature) ELSE 0,
     TopP        |-> IF r.TopP # NilPtr THEN Deref(r.TopP) ELSE 0,
     Seed        |-> 0,
     NumPredict  |-> 0,
     Stop        |-> r.Stop]

\* OpenCodeZenProvider.Chat: the request built from opts (never nil here)
OpenCodeZenChatRequest(opts) ==
    [NewChatCompletionRequest(FALSE) EXCEPT
        !.Temperature = Ptr(opts.Temperature),
        !.TopP        = Ptr(opts.TopP),
        !.Seed        = Ptr(opts.Seed),
        !.Stop        = IF opts.Stop # NilPtr THEN opts.Stop ELSE NilPtr,
        !.MaxTokens   = IF opts.NumPredict > 0 THEN Ptr(opts.NumPredict) ELSE NilPtr]

\* OpenCodeZenProvider.StreamChat: the request built from opts
OpenCodeZenStreamChatRequest(opts) ==
    [NewChatCompletionRequest(TRUE) EXCEPT
        !.Temperature = Ptr(opts.Temperature),
        !.TopP        = Ptr(opts.TopP),
        !.Seed        = Ptr(opts.Seed),
        !.Stop        = IF opts.Stop # NilPtr THEN opts.Stop ELSE NilPtr]

\* json.Marshal of the ollama.ChatRequest of OllamaProvider.Chat and StreamChat:
\* the members of "options", under the names of the OpenAI request
\* (num_predict under max_tokens), and the stream flag, which is always sent
EncodeOllamaChatRequest(stream, opts) ==
    [EncodeChatCompletionRequest(NewChatCompletionRequest(FALSE)) EXCEPT
        !.stream      = Present(stream),
        !.temperature = OmitZero(opts.Temperature, 0),
        !.top_p       = OmitZero(opts.TopP, 0),
        !.seed        = OmitZero(opts.Seed, 0),
        !.max_tokens  = OmitZero(opts.NumPredict, 0),
        !.stop        = OmitEmpty(opts.Stop)]

\* what is kept of the requests built for one client request: the chat
\* request as the client sent it, and the bodies that the blocking and the
\* streaming method of the provider send upstream for it
Outgoing(op, client, chat, stream) ==
    [op |-> op, client |-> client, chat |-> chat, stream |-> stream]

\* handleV1ChatCompletions of the later revision: opts is the decoded request
OpenAIRequests ==
    /\ outgoing = NoOutgoing
    /\ \E json \in JSONChatRequests :
          LET opts == DecodeChatCompletionRequest(json)
          IN  outgoing' = Outgoing("OpenAIProvider", json,
                                   EncodeChatCompletionRequest(OpenAIChatRequest(opts)),
                                   EncodeChatCompletionRequest(OpenAIStreamChatRequest(opts)))
    /\ UNCHANGED <<config, invocations, state, req, last, retryLog, failedSince, scenario, nStarted,
                   overlap, lastOp, lookup, pump, recorded, bodies, conv, scan, expansion>>

\* handleV1ChatCompletions of the earlier revision with an OpenCodeZenProvider
OpenCodeZenRequests ==
    /\ outgoing = NoOutgoing
    /\ \E json \in JSONChatRequests :
          LET opts == openaiRequestToOllamaOptions(DecodeChatCompletionRequest(json))
          IN  outgoing' = Outgoing("OpenCodeZenProvider", json,
                                   EncodeChatCompletionRequest(OpenCodeZenChatRequest(opts)),
                                   EncodeChatCompletionRequest(OpenCodeZenStreamChatRequest(opts)))
    /\ UNCHANGED <<config, invocations, state, req, last, retryLog, failedSince, scenario, nStarted,
                   overlap, lastOp, lookup, pump, recorded, bodies, conv, scan, expansion>>

\* handleV1ChatCompletions of the earlier revision with an OllamaProvider
OllamaRequests ==
    /\ outgoing = NoOutgoing
    /\ \E json \in JSONChatRequests :
          LET opts == openaiRequestToOllamaOptions(DecodeChatCompletionRequest(json))
          IN  outgoing' = Outgoing("OllamaProvider", json,
                                   EncodeOllamaChatRequest(FALSE, opts),
                                   EncodeOllamaChatRequest(TRUE, opts))
    /\ UNCHANGED <<config, invocations, state, req, last, retryLog, failedSince, scenario, nStarted,
                   overlap, lastOp, lookup, pump, recorded, bodies, conv, scan, expansion>>

----------------------------------------------------------------------------
(* package config: expandEnvVars, one loop iteration at a time. A string is a  *)
(* sequence of one-character strings.                                          *)

\* the characters of the strings handed to expandEnvVars
Chars == {"$", "{", "}", "A"}

RECURSIVE StringsOver(_, _)
StringsOver(chars, n) ==
    IF n = 0
    THEN {<< >>}
    ELSE LET shorter == StringsOver(chars, n - 1)
         IN  shorter \cup { Append(t, c) : t \in shorter, c \in chars }

\* the values the variables A and B are set to: empty, a literal, and values
\* that hold a reference themselves
EnvValues == { << >>, <<"v">>, <<"$", "{", "A", "}">>, <<"$", "{", "B", "}">> }

\* the process environment: A and B are set, every other name is unset
Environments == [{<<"A">>, <<"B">>} -> EnvValues]

\* os.Getenv: the empty string for a name that is not set
Getenv(env, name) == IF name \in DOMAIN env THEN env[name] ELSE << >>

\* strings.Index: the offset of the first occurrence of sub in t, -1 for none
Index(t, sub) ==
    LET at == { i \in 0..(Len(t) - Len(sub)) : SubSeq(t, i + 1, i + Len(sub)) = sub }
    IN  IF at = {} THEN -1 ELSE CHOOSE i \in at : \A j \in at : i <= j

\* t[from:]
SliceFrom(t, from) == SubSeq(t, from + 1, Len(t))

\* t[from:to]
Slice(t, from, to) == SubSeq(t, from + 1, to)

\* `start := strings.Index(s, "${")`
StartOf(t) == Index(t, <<"$", "{">>)

\* `end := strings.Index(s[start:], "}")`, before `end += start`
EndOf(t) == Index(SliceFrom(t, StartOf(t)), <<"}">>)

\* neither `break` is taken
LoopContinues(t) == StartOf(t) # -1 /\ EndOf(t) # -1

\* `s = s[:start] + envValue + s[end+1:]`
Replaced(t, env) ==
    LET start == StartOf(t)
        end == EndOf(t) + start
        varName == Slice(t, start + 2, end)
    IN  Slice(t, 0, start) \o Getenv(env, varName) \o SliceFrom(t, end + 1)

\* expandEnvVars is called on a url or an apiKey. One call is followed per
\* behaviour: a call reads nothing that an earlier one wrote.
expandEnvVars ==
    /\ expansion = NoExpansion
    /\ \E input \in StringsOver(Chars, MaxInputLen), env \in Environments :
          expansion' = [op |-> "expandEnvVars", env |-> env, input |-> input,
                        s |-> input, iterations |-> 0, returned |-> FALSE]
    /\ UNCHANGED <<config, invocations, state, req, last, retryLog, failedSince, scenario,
                   nStarted, overlap, lastOp, lookup, pump, recorded, bodies, conv, scan,
                   outgoing>>

\* one iteration of the `for` loop that reaches its last statement
ExpandIteration ==
    /\ expansion.op = "expandEnvVars"
    /\ ~expansion.returned
    /\ LoopContinues(expansion.s)
    /\ expansion' = [expansion EXCEPT !.s = Replaced(expansion.s, expansion.env),
                                      !.iterations = (expansion.iterations + 1) % 2]
    /\ UNCHANGED <<config, invocations, state, req, last, retryLog, failedSince, scenario,
                   nStarted, overlap, lastOp, lookup, pump, recorded, bodies, conv, scan,
                   outgoing>>

\* one of the two `break`s, and `return s`
ExpandReturn ==
    /\ expansion.op = "expandEnvVars"
    /\ ~expansion.returned
    /\ ~LoopContinues(expansion.s)
    /\ expansion' = [expansion EXCEPT !.returned = TRUE]
    /\ UNCHANGED <<config, invocations, state, req, last, retryLog, failedSince, scenario,
                   nStarted, overlap, lastOp, lookup, pump, recorded, bodies, conv, scan,
                   outgoing>>

----------------------------------------------------------------------------
(* Specifications *)

Init ==
    /\ config \in Configs
    /\ state = New(config.Thresholds.InitialTimeout)
    /\ req = [id \in Slots |-> IdleReq]
    /\ last = NoRequest
    /\ retryLog = << >>
    /\ failedSince = EmptyMap
    /\ scenario = TRUE
    /\ nStarted = 0
    /\ overlap = FALSE
    /\ lastOp = [op |-> "New", key |-> "", before |-> state]
    /\ lookup = NoLookup
    /\ pump = NoPump
    /\ recorded = EmptyMap
    /\ invocations = EmptyMap
    /\ bodies = 0
    /\ conv = NoConv
    /\ scan = NoScan
    /\ outgoing = NoOutgoing
    /\ expansion = NoExpansion

Idle == \A id \in Slots : req[id].pc = "idle"

\* requests arrive at any time
Start(id) == Receive(id, MaxRequests)

\* a request arrives only when no other is being handled
StartSeq(id) == Idle /\ Receive(id, MaxSeqRequests)

Step(id) ==
    \/ CheckAvailable(id)
    \/ Invoke(id)
    \/ BlockingReturn(id)
    \/ StreamOpen(id)
    \/ StreamClose(id)
    \/ ReadTimeout(id)
    \/ handleAllProvidersFailed(id)

Next == \E id \in Slots : Start(id) \/ Step(id)

\* a model lookup never touches the tracker or a flow: it is taken between
\* requests
LookupSeq == Idle /\ handleV1Model(MaxSeqRequests)

NextSeq ==
    \/ \E id \in Slots : StartSeq(id) \/ Step(id)
    \/ LookupSeq

\* streaming requests on a configured model, one at a time, each stream
\* unfolded chunk by chunk; the next request arrives once the producer of the
\* previous stream has gone
StartStream(id) ==
    /\ Idle
    /\ pump.closed
    /\ Receive(id, MaxStreamRequests)
    /\ req'[id].stream

StepStream(id) ==
    \/ CheckAvailable(id)
    \/ Invoke(id)
    \/ StreamOpen(id)
    \/ PumpStart(id)
    \/ Cancel(id)
    \/ Relay(id)
    \/ Finish(id)
    \/ ReadTimeout(id)
    \/ handleAllProvidersFailed(id)

NextStream ==
    \/ \E id \in Slots : StartStream(id) \/ StepStream(id)
    \/ Scan
    \/ Send

Spec == Init /\ [][Next]_vars

\* the streams are checked under one pair of timeouts
InitStream ==
    /\ Init
    /\ config.Thresholds.InitialTimeout = 10000
    /\ config.Thresholds.MaxTimeout = 40000

SpecStream == InitStream /\ [][NextStream]_vars

\* the Go scheduler runs every goroutine that can take a step, and an upstream
\* read returns: with a line, with the end of the body, or with an error
FairSpecStream ==
    /\ SpecStream
    /\ WF_vars(Scan)
    /\ WF_vars(Send)
    /\ \A id \in Slots : WF_vars(PumpStart(id)) /\ WF_vars(Relay(id)) /\ WF_vars(Finish(id))

SpecSeq == Init /\ [][NextSeq]_vars

\* the requests of SpecStream and, between two streams, blocking requests
StartBlocking(id) ==
    /\ Idle
    /\ pump.closed
    /\ Receive(id, MaxStreamRequests)
    /\ ~req'[id].stream

NextBody ==
    \/ NextStream
    \/ \E id \in Slots : StartBlocking(id) \/ BlockingReturn(id)

SpecBody == InitStream /\ [][NextBody]_vars

\* scenario 1: the chain of "M" is the one target (P1, m1)
InitBridge ==
    /\ InitStream
    /\ config.Models["M"] = <<ModelProvider("P1", "m1")>>
    /\ config.Thresholds.FailuresBeforeSwitch = 1

NextBridge == PassThroughChat \/ BridgedChat \/ BridgedGenerate

\* blocking chat exchanges that reach a target and get its 200, one by one
SpecBridge == InitBridge /\ [][NextBridge]_vars

NextScan ==
    \/ OpenAIStreamChat
    \/ OpenAIStreamComplete
    \/ OpenCodeZenStreamChat
    \/ OllamaStreamChat
    \/ OllamaStreamGenerate

\* upstream bodies read by the producers, one body per behaviour
SpecScan == InitBridge /\ [][NextScan]_vars

NextOutgoing == OpenAIRequests \/ OpenCodeZenRequests \/ OllamaRequests

\* the upstream requests built for one client request per behaviour
SpecOutgoing == InitBridge /\ [][NextOutgoing]_vars

NextExpand == expandEnvVars \/ ExpandIteration \/ ExpandReturn

\* one call of expandEnvVars per behaviour
SpecExpand == InitBridge /\ [][NextExpand]_vars

\* the goroutine that loads the configuration is scheduled while it can run
FairSpecExpand == SpecExpand /\ WF_vars(ExpandIteration) /\ WF_vars(ExpandReturn)

----------------------------------------------------------------------------
(* Vocabulary of the properties *)

KeysOf(chain) == { backendKey(chain[i]) : i \in 1..Len(chain) }

\* every key a configuration can give rise to, and one that none does
Keys == UNION { KeysOf(chain) : chain \in Chains } \cup {"P9/m9"}

\* the keys of the configured chain, and one the configuration does not name
ChainKeys == KeysOf(config.Models["M"]) \cup {"P9/m9"}

failures(k) == MapGet(state.failureCounts, k, 0)

Unavailable(s, k) == MapGet(s.unavailableModels, k, FALSE)

Active == { id \in Slots : req[id].pc # "idle" }

Answered == last.status # << >>

StrictlyIncreasing(seq) == \A i \in 1..(Len(seq) - 1) : seq[i] < seq[i + 1]

NoSuccessIn(results) == \A i \in 1..Len(results) : results[i] # "ok"

\* flow id passes the availability test and the provider lookup of its entry
PassStep(id) == req[id].pc = "check" /\ req'[id].pc = "invoke"

\* flow id calls the provider method of its entry
InvokeStep(id) == req[id].pc # "calling" /\ req'[id].pc = "calling"

\* flow id returns to the client
FinishStep(id) == req[id].pc # "idle" /\ req'[id].pc = "idle"

\* flow id gets a successful response from its target: a blocking call without
\* error, or a stream that ran to its normal end
SuccessStep(id) ==
    /\ FinishStep(id)
    /\ \/ req[id].pc = "calling" /\ last'.status = <<200>>
       \/ req[id].pc = "streaming" /\ last'.endCause = "eof"

\* the walk of the request fell through: no hand-off to the pump, no success
FellThrough(l) ==
    /\ l.model \in ModelNames(config)
    /\ ~(l.stream /\ Len(l.invoked) > 0)
    /\ NoSuccessIn(l.results)

----------------------------------------------------------------------------
(* C1: a non-streaming request invokes the entries of its chain in configured  *)
(* order, each at most once, the next only after the previous call returned an *)
(* error; the 200 it sends is the response of the first invoked entry that     *)
(* succeeded, and that entry is the last one invoked.                          *)

C1_WalkInProgress(r) ==
    /\ StrictlyIncreasing(r.invoked)
    /\ \A i \in 1..Len(r.invoked) : r.invoked[i] \in 1..Len(Chain(r))
    /\ NoSuccessIn(r.results)
    /\ Len(r.results) = Len(r.invoked) - (IF r.pc = "calling" THEN 1 ELSE 0)
    /\ r.pc \in {"invoke", "calling"} => \A i \in 1..Len(r.results) : r.invoked[i] < r.idx
    /\ r.pc = "calling" => r.invoked[Len(r.invoked)] = r.idx

C1_Served(l) ==
    /\ StrictlyIncreasing(l.invoked)
    /\ Len(l.invoked) >= 1
    /\ Len(l.results) = Len(l.invoked)
    /\ \A i \in 1..(Len(l.results) - 1) : l.results[i] # "ok"
    /\ l.results[Len(l.results)] = "ok"
    /\ l.servedBy = l.invoked[Len(l.invoked)]
    /\ l.body = backendKey(config.Models[l.model][l.servedBy])

C1_OrderedFallback ==
    /\ \A id \in Active : ~req[id].stream => C1_WalkInProgress(req[id])
    /\ (Answered /\ ~last.stream /\ last.status = <<200>>) => C1_Served(last)
    /\ (Answered /\ ~last.stream /\ last.status = <<503>>) =>
           /\ StrictlyIncreasing(last.invoked)
           /\ Len(last.results) = Len(last.invoked)
           /\ NoSuccessIn(last.results)

C1_Witness ==
    /\ ~last.stream
    /\ last.status = <<200>>
    /\ last.invoked = <<1, 2>>
    /\ last.results = <<"err", "ok">>
    /\ last.servedBy = 2

(* C2 as stated: in every interleaving, no provider method is invoked for a    *)
(* key that is in unavailableModels at the moment of the invocation.           *)
C2_NeverInvokedWhileUnavailable ==
    [][\A id \in Slots : InvokeStep(id) => ~Unavailable(state, Key(req[id]))]_vars

(* C2 as amended: a provider method is invoked only by a flow whose own        *)
(* availability test of that entry found the key outside unavailableModels     *)
(* with its counter below the threshold; as long as no two requests have       *)
(* overlapped, the key is outside unavailableModels at the invocation too.     *)
C2_InvokedAfterAvailableCheck ==
    [][\A id \in Slots :
          /\ InvokeStep(id) => req[id].pc = "invoke"
          /\ req'[id].pc = "invoke" => req[id].pc \in {"check", "invoke"}
          /\ PassStep(id) => /\ ~Unavailable(state, Key(req[id]))
                             /\ failures(Key(req[id])) < threshold
          /\ (InvokeStep(id) /\ ~overlap) => ~Unavailable(state, Key(req[id]))]_vars

C2_Witness ==
    /\ ~overlap
    /\ \E id \in Slots :
          /\ req[id].pc = "calling"
          /\ req[id].invoked = <<2>>
          /\ Unavailable(state, backendKey(Chain(req[id])[1]))
          /\ Chain(req[id])[1].provider \in config.Providers

(* C3: a request whose walk falls through (empty chain included) gets exactly  *)
(* one response, a 503, and advances the timeout exactly once; every other     *)
(* request (200, 400, 404, 405, hand-off to the pump) never advances it.       *)
C3_ExhaustionAdvancesOnce ==
    /\ [](Answered =>
            /\ Len(last.status) = 1
            /\ FellThrough(last) <=> last.status = <<503>>
            /\ last.advances = (IF FellThrough(last) THEN 1 ELSE 0))
    /\ [][/\ \A id \in Slots :
                (FinishStep(id) /\ last'.status = <<503>>) =>
                    /\ state'.cycle = state.cycle + 1
                    /\ lastOp'.op = "IncrementTimeout"
          /\ (state'.cycle # state.cycle \/ state'.currentTimeout # state.currentTimeout) =>
                    /\ last'.status = <<503>>
                    /\ \E id \in Slots : FinishStep(id) /\ req[id].pc = "increment"
                    /\ state'.cycle = state.cycle + 1]_vars

C3_Witness ==
    /\ last.status = <<503>>
    /\ last.invoked = <<1, 2>>
    /\ last.advances = 1
    /\ state.cycle = 2

(* C4: when requests do not overlap, the n-th 503 carries                      *)
(* Retry-After = floor(min(initial_timeout_ms * 2^(n-1), max_timeout_ms)/1000);*)
(* with (10000, 40000) the headers are 10, 20, 40, 40.                         *)
C4_RetryAfterSequence ==
    /\ \A n \in 1..Len(retryLog) :
          retryLog[n] = Min(config.Thresholds.InitialTimeout * Pow2(n - 1),
                            config.Thresholds.MaxTimeout) \div 1000
    /\ (config.Thresholds.InitialTimeout = 10000 /\ config.Thresholds.MaxTimeout = 40000) =>
          \A n \in 1..Min(Len(retryLog), 4) : retryLog[n] = <<10, 20, 40, 40>>[n]
    /\ last.status = <<503>> => last.retryAfter = retryLog[Len(retryLog)]

C4_Witness ==
    /\ config.Thresholds.InitialTimeout = 10000
    /\ config.Thresholds.MaxTimeout = 40000
    /\ retryLog = <<10, 20, 40, 40>>

(* C5: chain [k1, k2], threshold T, k1 always failing, k2 always succeeding,   *)
(* blocking requests one after the other: each of the first T requests invokes *)
(* k1 then k2 and returns k2's 200; after the T-th request k1 is unavailable;  *)
(* from request T+1 on k1 is not invoked and k2 is the first entry invoked.    *)
C5_Applies ==
    /\ scenario
    /\ nStarted >= 1
    /\ Len(config.Models["M"]) = 2
    /\ \A i \in 1..2 : config.Models["M"][i].provider \in config.Providers

C5_FallbackUntilThreshold ==
    C5_Applies =>
        LET k1 == backendKey(config.Models["M"][1])
        IN  /\ \A id \in Active :
                  /\ nStarted <= threshold => req[id].invoked \in {<< >>, <<1>>, <<1, 2>>}
                  /\ nStarted > threshold => req[id].invoked \in {<< >>, <<2>>}
            /\ Idle =>
                  /\ last.status = <<200>>
                  /\ last.servedBy = 2
                  /\ last.invoked = (IF nStarted <= threshold THEN <<1, 2>> ELSE <<2>>)
                  /\ Unavailable(state, k1) <=> nStarted >= threshold
                  /\ failures(k1) = Min(nStarted, threshold)

C5_Witness ==
    /\ C5_Applies
    /\ Idle
    /\ threshold = 2
    /\ nStarted = 3
    /\ last.invoked = <<2>>
    /\ Unavailable(state, "P1/m1")

(* C6 (I1): for every key k, failures[k] < failures_before_switch implies that *)
(* k is not in unavailableModels.                                              *)
C6_BelowThresholdNotUnavailable ==
    \A k \in Keys : failures(k) < threshold => ~Unavailable(state, k)

C6_Witness ==
    \E k \in Keys :
        /\ lastOp = [op |-> "RecordFailure", key |-> k, before |-> lastOp.before]
        /\ failures(k) = 1
        /\ threshold = 2
        /\ ~Unavailable(state, k)

(* C7 (I2): initial_timeout_ms <= current_timeout_ms <= max_timeout_ms, after  *)
(* any number of IncrementTimeout calls.                                       *)
C7_TimeoutWithinBounds ==
    /\ config.Thresholds.InitialTimeout <= state.currentTimeout
    /\ state.currentTimeout <= config.Thresholds.MaxTimeout

C7_Witness ==
    /\ state.cycle >= 4
    /\ config.Thresholds.InitialTimeout < config.Thresholds.MaxTimeout
    /\ state.currentTimeout = config.Thresholds.MaxTimeout

(* C8: currentTimeout never decreases, whatever happens in between (failures,  *)
(* successes, resets), and an observed value never exceeds max_timeout_ms.     *)
C8_TimeoutMonotone ==
    [][/\ state'.currentTimeout >= state.currentTimeout
       /\ GetProgressiveTimeout(state') <= config.Thresholds.MaxTimeout
       /\ \A id \in Slots : req'[id].pc = "increment" =>
              /\ req'[id].timeout <= state'.currentTimeout
              /\ req'[id].timeout <= config.Thresholds.MaxTimeout]_vars

C8_Witness ==
    /\ lastOp.op = "ResetModel"
    /\ last.status = <<200>>
    /\ state.cycle >= 1
    /\ state.currentTimeout > config.Thresholds.InitialTimeout

(* C9: ResetModel(k) followed, with no operation on k in between, by           *)
(* IsAvailable(k, threshold) gives true, for every key, every threshold >= 1   *)
(* and every tracker state.                                                    *)
C9_AvailableAfterReset ==
    /\ \A k \in ChainKeys, th \in 1..MaxThreshold :
          /\ IsAvailable(ResetModel(state, k), k, th)
          /\ \A k2 \in ChainKeys \ {k} :
                IsAvailable(RecordFailure(ResetModel(state, k), k2, th), k, th)
    /\ lastOp.op = "ResetModel" =>
          \A th \in 1..MaxThreshold : IsAvailable(state, lastOp.key, th)

C9_Witness ==
    /\ lastOp.op = "ResetModel"
    /\ Unavailable(lastOp.before, lastOp.key)
    /\ IsAvailable(state, lastOp.key, threshold)

(* C10: when a target returns a successful response (a blocking call without   *)
(* error, a stream that ran to its normal end) ResetModel is called for its    *)
(* key: right after, failures[k] = 0 and k is not unavailable; so the counter  *)
(* never exceeds the failures recorded since the key's last success.           *)
C10_SuccessResets ==
    /\ [][\A id \in Slots :
              SuccessStep(id) =>
                  /\ lastOp' = [op |-> "ResetModel", key |-> Key(req[id]), before |-> state]
                  /\ Key(req[id]) \notin DOMAIN state'.failureCounts
                  /\ MapGet(state'.failureCounts, Key(req[id]), 0) = 0
                  /\ ~Unavailable(state', Key(req[id]))]_vars
    /\ [](\A k \in Keys : failures(k) <= MapGet(failedSince, k, 0))

C10_Witness ==
    /\ lastOp.op = "ResetModel"
    /\ MapGet(lastOp.before.failureCounts, lastOp.key, 0) >= 1
    /\ last.status = <<200>>
    /\ last.servedBy >= 1
    /\ backendKey(config.Models[last.model][last.servedBy]) = lastOp.key
    /\ failures(lastOp.key) = 0

(* C11: a chain entry whose provider is not in the provider map is skipped:  *)
(* no provider method is invoked for it, RecordFailure is never called for its *)
(* key (the key has no entry in failureCounts and none in unavailableModels),  *)
(* and the walk goes on with the next entry.                                   *)
MissingEntries(chain) ==
    { i \in 1..Len(chain) : chain[i].provider \notin config.Providers }

C11_MissingProviderSkipped ==
    /\ [](\A i \in MissingEntries(config.Models["M"]) :
            LET k == backendKey(config.Models["M"][i])
            IN  /\ k \notin DOMAIN state.failureCounts
                /\ k \notin DOMAIN state.unavailableModels
                /\ \A id \in Active : \A j \in 1..Len(req[id].invoked) :
                       req[id].invoked[j] # i
                /\ \A j \in 1..Len(last.invoked) : last.invoked[j] # i)
    /\ [][\A id \in Slots :
             (/\ req[id].pc = "check"
              /\ req[id].idx \in MissingEntries(Chain(req[id]))
              /\ req'[id] # req[id]) =>
                 /\ req'[id].idx = req[id].idx + 1
                 /\ req'[id].pc = (IF req[id].idx < Len(Chain(req[id]))
                                   THEN "check" ELSE "exhausted")
                 /\ req'[id].invoked = req[id].invoked
                 /\ state' = state
                 /\ lastOp' = lastOp]_vars

C11_Witness ==
    /\ MissingEntries(config.Models["M"]) = {1}
    /\ last.status = <<200>>
    /\ last.invoked = <<2>>
    /\ last.servedBy = 2
    /\ failures("P1/m1") = 0
    /\ "P_missing/m" \notin DOMAIN state.failureCounts

(* C12: a request that names a logical model absent from the config gets a    *)
(* 404, on the dispatch endpoints and on GET /v1/models/{model} alike; it      *)
(* starts no walk, so no provider method is invoked for it, and the step that  *)
(* answers it leaves the tracker as it was.                                    *)
C12_UnknownModelNotFound ==
    /\ [](/\ \A id \in Active : req[id].model \in ModelNames(config)
          /\ last.model = "nonexistent" =>
                /\ last.status = <<404>>
                /\ last.invoked = << >>
                /\ last.advances = 0
          /\ lookup.model = "nonexistent" => lookup.status = <<404>>)
    /\ [][/\ (last' # last /\ last'.model = "nonexistent") =>
                 state' = state /\ req' = req /\ lastOp' = lastOp
          /\ lookup' # lookup => state' = state /\ req' = req /\ lastOp' = lastOp
          /\ state' # state =>
                 \E id \in Slots : /\ req[id].pc # "idle"
                                   /\ req[id].model \in ModelNames(config)]_vars

C12_Witness ==
    /\ last.model = "nonexistent"
    /\ last.status = <<404>>
    /\ lookup.model = "nonexistent"
    /\ lookup.status = <<404>>
    /\ failures("P1/m1") = 1
    /\ lastOp.op = "ResetModel"
    /\ Idle

(* C13 as stated: a POST on a dispatch endpoint whose body is malformed JSON   *)
(* or has no model field is answered with a 400, and no provider method is     *)
(* invoked for it.                                                             *)
C13_BadBodyRejectedWith400 ==
    (Answered /\ last.model = "" /\ last.status # <<405>>) =>
        /\ last.status = <<400>>
        /\ last.invoked = << >>

\* a pump that has run and has returned, or has panicked
Ended(p) == p.id # "" /\ p.owner = 0

(* C14 as stated: an SSE stream ends with "data: [DONE]" if and only if the    *)
(* upstream stream closed cleanly; after a read error or a cancellation the    *)
(* sentinel is not written.                                                    *)
C14_DoneIffCleanClose ==
    (Ended(pump) /\ pump.closed) => (pump.done <=> pump.end = "eof")

(* C15 as stated: when the upstream stream fails after at least one chunk has  *)
(* been written to the client, the request is not retried on another entry and *)
(* RecordFailure is applied to the key: failures[key] goes up by one.          *)
C15_MidStreamFailureRecorded ==
    [][\A id \in Slots :
          (/\ req[id].pc = "streaming"
           /\ FinishStep(id)
           /\ pump.end = "readerr"
           /\ Len(pump.events) >= 1) =>
              /\ last'.invoked = req[id].invoked
              /\ MapGet(state'.failureCounts, pump.key, 0) = failures(pump.key) + 1]_vars

(* C16: when StreamChat/StreamComplete returns an error, the pump calls       *)
(* RecordFailure for the target once and answers 500; the request invokes no   *)
(* later entry of its chain, gets no 503 and does not advance the timeout.     *)
C16_StreamOpenErrorIsFinal ==
    /\ [](last.status = <<500>> =>
            /\ last.stream
            /\ Len(last.invoked) = 1
            /\ Len(last.results) = 1
            /\ last.results[1] # "ok"
            /\ last.advances = 0
            /\ last.retryAfter = -1)
    /\ [][\A id \in Slots :
             (req[id].pc = "calling" /\ req[id].stream /\ req'[id].pc # "streaming"
                 /\ req'[id] # req[id]) =>
                 /\ req'[id] = IdleReq
                 /\ last'.status = <<500>>
                 /\ last'.invoked = req[id].invoked
                 /\ state' = RecordFailure(state, Key(req[id]), threshold)
                 /\ MapGet(state'.failureCounts, Key(req[id]), 0) =
                        failures(Key(req[id])) + 1
                 /\ lastOp' = [op |-> "RecordFailure", key |-> Key(req[id]),
                               before |-> state]
                 /\ state'.cycle = state.cycle
                 /\ state'.currentTimeout = state.currentTimeout
                 /\ retryLog' = retryLog]_vars

C16_Witness ==
    /\ last.status = <<500>>
    /\ last.invoked = <<1>>
    /\ Len(config.Models["M"]) = 2
    /\ config.Models["M"][2].provider \in config.Providers
    /\ IsAvailable(state, backendKey(config.Models["M"][2]), threshold)
    /\ failures(backendKey(config.Models["M"][1])) = 1
    /\ state.cycle = 0
    /\ retryLog = << >>

(* C17 as stated: a provider call that ends because the request context was   *)
(* cancelled is not counted against its target: failures[key] is not           *)
(* incremented and the key does not become unavailable, for blocking calls,    *)
(* for streams that cannot be opened and for streams cancelled on their way.   *)
CallEnds(id, outcome) ==
    /\ req[id].pc = "calling"
    /\ \/ req'[id].results = Append(req[id].results, outcome)
       \/ req'[id] = IdleReq /\ last'.results = Append(req[id].results, outcome)

C17_CancellationNotCounted ==
    [][\A id \in Slots :
          (\/ CallEnds(id, "cancel")
           \/ req[id].pc = "streaming" /\ FinishStep(id) /\ last'.endCause = "cancel") =>
              /\ MapGet(state'.failureCounts, Key(req[id]), 0) <= failures(Key(req[id]))
              /\ Unavailable(state', Key(req[id])) => Unavailable(state, Key(req[id]))]_vars

(* C18 as stated: once the request context of a running stream is cancelled,   *)
(* eventually the producer has left its loop (body and channel closed) and the *)
(* pump has returned.                                                          *)
C18_CancelledStreamWindsDown ==
    pump.cancelled ~> (pump.closed /\ pump.owner = 0)

(* C19 as stated: the pump of a chat stream handles every chunk without        *)
(* faulting and writes one event per upstream chunk, in upstream order, with   *)
(* the role and content of the chunk's delta; after a cleanly ended stream     *)
(* every chunk has been written and "data: [DONE]" follows.                    *)
DeltasOf(choices) ==
    [i \in 1..Len(choices) |-> [Role |-> choices[i].Delta.Role,
                                Content |-> choices[i].Delta.Content]]

C19_EveryChunkRelayed ==
    (pump.id # "" /\ pump.chat) =>
        /\ ~pump.faulted
        /\ Len(pump.events) <= Len(pump.upstream)
        /\ \A i \in 1..Len(pump.events) :
              DeltasOf(pump.events[i].Choices) = DeltasOf(pump.upstream[i].Choices)
        /\ (Ended(pump) /\ pump.end = "eof") =>
              /\ Len(pump.events) = Len(pump.upstream)
              /\ pump.done

(* C20: every event of one SSE stream carries the id and the created value     *)
(* chosen when the pump started, and the logical model name of the request,    *)
(* never the model name the upstream reported; id and created do not change    *)
(* while the stream lasts, and events are only ever appended.                  *)
C20_StableIdentity ==
    /\ [](\A i \in 1..Len(pump.events) :
            /\ pump.events[i].ID = pump.id
            /\ pump.events[i].Created = pump.created
            /\ pump.events[i].Model = pump.requestModel
            /\ pump.events[i].Model \in ModelNames(config)
            /\ pump.events[i].Model # pump.upstream[i].Model)
    /\ [][pump.owner # 0 =>
             /\ pump'.id = pump.id
             /\ pump'.created = pump.created
             /\ pump'.requestModel = pump.requestModel
             /\ \/ pump'.events = pump.events
                \/ \E e \in {pump'.events[Len(pump'.events)]} :
                        pump'.events = Append(pump.events, e)]_vars

C20_Witness ==
    /\ Ended(pump)
    /\ pump.done
    /\ ~pump.chat
    /\ Len(pump.events) = 2
    /\ pump.events[2].Created < pump.upstream[2].Created
    /\ pump.events[2].ID # pump.upstream[2].ID
    /\ pump.events[1].Choices = pump.upstream[1].Choices

(* C21 as stated: a successful non-streaming chat request on logical model M,  *)
(* served by target (P1, m1), gets a 200 whose JSON carries the content the    *)
(* upstream sent and model = "M", the logical name, whatever model name (or    *)
(* none) the upstream reported.                                                *)
C21_BlockingChatEchoesLogicalModel ==
    (conv.op = "PassThroughChat" /\ Len(conv.json.choices) >= 1
                                  /\ conv.json.choices[1].message # Absent) =>
        /\ ~conv.faulted
        /\ conv.written # NilPtr
        /\ Deref(conv.written).model = Present("M")
        /\ Deref(conv.written).choices[1].message # Absent
        /\ Deref(conv.written).choices[1].message[1].content =
               conv.json.choices[1].message[1].content

(* C22: the operations of the tracker are atomic with respect to each other   *)
(* and no increment is lost: after N RecordFailure(k, threshold) calls, made   *)
(* by requests that run at the same time, with no ResetModel(k) in between,    *)
(* failures[k] = N, and k is unavailable iff N >= threshold.                   *)
C22_NoLostIncrement ==
    \A k \in Keys :
        /\ failures(k) = MapGet(recorded, k, 0)
        /\ Unavailable(state, k) <=> MapGet(recorded, k, 0) >= threshold

C22_Witness ==
    /\ overlap
    /\ threshold = 2
    /\ \A id \in Slots :
          /\ req[id].pc = "check"
          /\ req[id].invoked = <<1>>
          /\ req[id].results = <<"err">>
    /\ MapGet(recorded, backendKey(config.Models["M"][1]), 0) = 2
    /\ failures(backendKey(config.Models["M"][1])) = 2
    /\ Unavailable(state, backendKey(config.Models["M"][1]))

(* C23: every upstream response body a provider call acquires is closed on    *)
(* every exit path (success, status other than 200, decode error, end of       *)
(* stream, read error in mid-stream, cancellation): no returned call leaves a  *)
(* body behind that nobody owns, and once the producer of a stream has         *)
(* terminated its body is closed; so with the request and its producer         *)
(* terminated, no body opened for it is open.                                  *)
C23_BodiesClosed ==
    /\ bodies = 0
    /\ pump.closed => pump.body # "open"
    /\ (Idle /\ pump.closed) => (bodies = 0 /\ pump.body # "open")

C23_Witness ==
    /\ Idle
    /\ Ended(pump)
    /\ pump.end = "readerr"
    /\ Len(pump.events) >= 1
    /\ pump.body = "closed"
    /\ ~last.stream
    /\ last.results = <<"err", "ok">>
    /\ bodies = 0

(* C24 as stated: an OpenAI-style chat response with at least one choice,      *)
(* converted to the Ollama form (convertChatResponse) and back                 *)
(* (ollamaChatToOpenAIResponse), has the role, content, finish_reason, prompt  *)
(* token count and completion token count it had, whatever the role and the    *)
(* finish_reason.  Stated here for the responses whose first choice carries a  *)
(* message and a finish_reason; the others are the matter of C25.              *)
TokensOf(usage) ==
    IF usage = Absent
    THEN [prompt_tokens |-> 0, completion_tokens |-> 0]
    ELSE [prompt_tokens |-> usage[1].prompt_tokens,
          completion_tokens |-> usage[1].completion_tokens]

C24_RoundTripIsIdentity ==
    (conv.op = "BridgedChat" /\ Len(conv.decoded.Choices) >= 1
                              /\ conv.decoded.Choices[1].Message # NilPtr
                              /\ conv.decoded.Choices[1].FinishReason # "") =>
        LET original == EncodeChatCompletionResponse(conv.decoded)
        IN  /\ conv.written # NilPtr
            /\ Deref(conv.written).choices[1].message = original.choices[1].message
            /\ Deref(conv.written).choices[1].finish_reason =
                   original.choices[1].finish_reason
            /\ TokensOf(Deref(conv.written).usage) = TokensOf(original.usage)

(* C25 as stated: the conversions of the format bridge are total: for every    *)
(* response, one with an empty choices array, with a choice without a message  *)
(* or without usage included, each conversion returns a value and none         *)
(* faults; ollamaChatToOpenAIResponse applied to what convertChatResponse      *)
(* returned never dereferences a missing message, nor does Generate.           *)
C25_BridgeIsTotal ==
    conv.op \in {"BridgedChat", "BridgedGenerate"} =>
        /\ ~conv.faulted
        /\ conv.returned # NilPtr
        /\ conv.op = "BridgedChat" => conv.written # NilPtr

(* C26: IsAvailable(key, threshold) returns true iff key is not in             *)
(* unavailableModels and failures[key] < threshold, in the tracker as it is    *)
(* when the call holds the lock; it never returns false for a key outside      *)
(* unavailableModels whose counter is below the threshold, and it changes no   *)
(* field of the tracker.                                                       *)
C26_IsAvailableExact ==
    /\ [](\A k \in Keys, th \in 1..(MaxThreshold + 1) :
            IsAvailable(state, k, th) <=> (~Unavailable(state, k) /\ failures(k) < th))
    /\ [][\A id \in Slots :
             (req[id].pc = "check" /\ req'[id] # req[id]) =>
                 LET k == Key(req[id])
                     configured == Chain(req[id])[req[id].idx].provider \in config.Providers
                 IN  /\ state' = state
                     /\ lastOp' = lastOp
                     /\ PassStep(id) => (~Unavailable(state, k) /\ failures(k) < threshold)
                     /\ (~Unavailable(state, k) /\ failures(k) < threshold /\ configured)
                            => PassStep(id)
                     /\ ~PassStep(id) => req'[id] = Continue(req[id])]_vars

C26_Witness ==
    \E id \in Slots :
        /\ req[id].pc = "invoke"
        /\ req[id].idx = 2
        /\ threshold = 2
        /\ failures(Key(req[id])) = 1
        /\ ~Unavailable(state, Key(req[id]))
        /\ Unavailable(state, backendKey(Chain(req[id])[1]))

(* C27: the state machine of a target: a key starts healthy; it enters         *)
(* unavailableModels only by a RecordFailure(key, threshold) that brings       *)
(* failures[key] to the threshold or beyond, and leaves only by ResetModel of  *)
(* that key; in every reachable state the key is unavailable iff its counter   *)
(* has reached failures_before_switch since its last reset. IncrementTimeout   *)
(* never evicts a key.                                                         *)
C27_TargetStateMachine ==
    /\ lastOp.op = "New" => \A k \in Keys : ~Unavailable(state, k)
    /\ \A k \in Keys :
          /\ Unavailable(state, k) <=> MapGet(recorded, k, 0) >= threshold
          /\ (Unavailable(state, k) /\ ~Unavailable(lastOp.before, k)) =>
                 /\ lastOp.op = "RecordFailure"
                 /\ lastOp.key = k
                 /\ failures(k) = MapGet(lastOp.before.failureCounts, k, 0) + 1
                 /\ failures(k) >= threshold
          /\ (~Unavailable(state, k) /\ Unavailable(lastOp.before, k)) =>
                 /\ lastOp.op = "ResetModel"
                 /\ lastOp.key = k
    /\ lastOp.op = "IncrementTimeout" =>
          /\ state.unavailableModels = lastOp.before.unavailableModels
          /\ state.failureCounts = lastOp.before.failureCounts

C27_Witness ==
    /\ lastOp.op = "IncrementTimeout"
    /\ state.cycle = 2
    /\ \E k \in Keys : Unavailable(lastOp.before, k) /\ Unavailable(state, k)

\* the entries of the tracker under key k
Entry(s, k) == <<MapGet(s.failureCounts, k, 0), MapGet(s.unavailableModels, k, FALSE)>>

\* every key either tracker holds, and every key a configuration can name
KnownKeys ==
    Keys \cup DOMAIN state.failureCounts \cup DOMAIN state.unavailableModels
         \cup DOMAIN lastOp.before.failureCounts \cup DOMAIN lastOp.before.unavailableModels

(* C28: RecordFailure(k) and ResetModel(k) change the entries of key k only:   *)
(* every other key's counter and mark, currentTimeout and cycle stay as they   *)
(* were. IncrementTimeout changes currentTimeout and cycle only. Keys have the *)
(* form "provider/model", so two entries of a chain with the same provider and *)
(* different models have independent counters.                                 *)
C28_Frame ==
    /\ lastOp.op \in {"RecordFailure", "ResetModel"} =>
          /\ \A k \in KnownKeys \ {lastOp.key} : Entry(state, k) = Entry(lastOp.before, k)
          /\ state.currentTimeout = lastOp.before.currentTimeout
          /\ state.cycle = lastOp.before.cycle
    /\ lastOp.op = "IncrementTimeout" =>
          /\ state.failureCounts = lastOp.before.failureCounts
          /\ state.unavailableModels = lastOp.before.unavailableModels
    /\ \A i, j \in 1..Len(config.Models["M"]) :
          LET a == config.Models["M"][i]
              b == config.Models["M"][j]
          IN  (a.provider = b.provider /\ a.model # b.model) =>
                 /\ backendKey(a) # backendKey(b)
                 /\ (lastOp.op \in {"RecordFailure", "ResetModel"}
                        /\ lastOp.key = backendKey(a)) =>
                        Entry(state, backendKey(b)) = Entry(lastOp.before, backendKey(b))

C28_Witness ==
    /\ lastOp.op = "RecordFailure"
    /\ \E i, j \in 1..Len(config.Models["M"]) :
          LET a == config.Models["M"][i]
              b == config.Models["M"][j]
          IN  /\ a.provider = b.provider /\ a.model # b.model
              /\ lastOp.key = backendKey(a)
              /\ failures(backendKey(a)) = 1
              /\ failures(backendKey(b)) = 1
              /\ Entry(lastOp.before, backendKey(b)) = <<1, FALSE>>
              /\ Entry(lastOp.before, backendKey(a)) = <<0, FALSE>>

InFlight(id) == req[id].pc \in {"invoke", "calling", "streaming"}

\* every target of the chain of "M" is unavailable and none is in flight
AllUnavailable ==
    /\ Len(config.Models["M"]) >= 1
    /\ \A k \in KeysOf(config.Models["M"]) : Unavailable(state, k)
    /\ \A id \in Slots : ~InFlight(id)

(* C30: once every target of a chain is unavailable and no request to those    *)
(* targets is in flight, the state is absorbing: it stays so; no step resets   *)
(* a target or changes a counter; every request received from then on starts   *)
(* with no target invoked, skips each target at its availability test, invokes *)
(* no provider and ends with 503.                                              *)
C30_AllUnavailableIsAbsorbing ==
    [][AllUnavailable =>
          /\ AllUnavailable'
          /\ state'.unavailableModels = state.unavailableModels
          /\ state'.failureCounts = state.failureCounts
          /\ \A id \in Slots :
                /\ ~PassStep(id)
                /\ ~InvokeStep(id)
                /\ (req[id].pc = "check" /\ req'[id] # req[id]) =>
                       req'[id] = Continue(req[id])
                /\ (req[id].pc = "idle" /\ req'[id].pc # "idle" /\ req'[id].model = "M") =>
                       (req'[id].pc = "check" /\ req'[id].invoked = << >>)
                /\ (req[id].pc # "idle" /\ req'[id].pc # "idle") =>
                       req'[id].invoked = req[id].invoked
                /\ (FinishStep(id) /\ req[id].model = "M") =>
                       /\ last'.status = <<503>>
                       /\ last'.invoked = req[id].invoked
                       /\ last'.servedBy = 0]_vars

C30_Witness ==
    /\ AllUnavailable
    /\ Idle
    /\ ~overlap
    /\ nStarted = 2
    /\ state.cycle = 2
    /\ Len(config.Models["M"]) = 2
    /\ last.model = "M"
    /\ last.status = <<503>>
    /\ last.invoked = << >>
    /\ last.results = << >>

(* C31: the body of a 503 exhaustion response is {error: m}, m being the       *)
(* message of the last provider error of this request's walk of the chain, or  *)
(* the literal "all providers failed" when no provider call of this request    *)
(* failed (every entry was skipped).                                           *)
C31_ExhaustionBody ==
    last.status = <<503>> =>
        LET n == Len(last.results)
        IN  /\ Len(last.invoked) = n
            /\ n = 0 => last.body = "all providers failed"
            /\ n > 0 =>
                  /\ last.results[n] # "ok"
                  /\ last.body = ErrorOf(backendKey(config.Models[last.model][last.invoked[n]]),
                                         last.results[n])
                  /\ last.body # "all providers failed"

C31_Witness ==
    /\ last.status = <<503>>
    /\ last.invoked = <<1, 2>>
    /\ last.results = <<"err", "err">>
    /\ last.body = ErrorOf(backendKey(config.Models["M"][2]), "err")
    /\ last.body # ErrorOf(backendKey(config.Models["M"][1]), "err")

(* C32 as stated: the channel of a stream is closed once, behind its last      *)
(* chunk, however the upstream ends (end of body, read error, terminator,      *)
(* cancelled context); the pump receives until the channel is closed, so a     *)
(* producer that waits to send on the full channel gets to send, and every     *)
(* channel that was opened is closed in the end.                               *)
C32_ChannelClosedOnce ==
    /\ [][(pump.closed /\ pump'.id = pump.id) =>
             /\ pump'.closed
             /\ pump'.end = pump.end
             /\ pump'.upstream = pump.upstream
             /\ pump'.sending = << >>
             /\ Len(pump'.ch) <= Len(pump.ch)]_vars
    /\ (pump.sending # << >>) ~> (pump.sending = << >>)
    /\ (~pump.closed) ~> pump.closed

\* the first line of the body that is "data: [DONE]", or one past the body
FirstTerminator(body) ==
    LET at == { i \in 1..Len(body) : body[i] = Line("data: ", Text("[DONE]")) }
    IN  IF at = {} THEN Len(body) + 1 ELSE CHOOSE i \in at : \A j \in at : i <= j

\* the lines before the terminator that begin with "data: " and whose payload
\* parses as JSON, in the order of the body
DeliverableLines(body) ==
    SelectSeq(SubSeq(body, 1, FirstTerminator(body) - 1),
              LAMBDA line : line.field = "data: " /\ line.payload.json)

\* the text a sent value carries, choice by choice
SentTexts(op, value) ==
    [i \in 1..Len(value.Choices) |->
        IF op = "OpenAIProvider.StreamChat"
        THEN Deref(value.Choices[i].Delta).Content
        ELSE value.Choices[i].Text]

\* the text an upstream chunk carries, choice by choice
UpstreamTexts(line) ==
    [i \in 1..Len(line.payload.value[1].choices) |-> line.payload.value[1].choices[i].text]

(* C33 as stated: of an SSE upstream body only the lines beginning with        *)
(* "data: " are considered; a line whose payload does not parse as JSON is     *)
(* dropped and the valid chunks behind it are still delivered; at the payload  *)
(* "[DONE]" the producer stops.  So what is sent is, in order, one value for   *)
(* each parsable "data: " line before the first "data: [DONE]" line.           *)
C33_SSEFraming ==
    scan.op \in {"OpenAIProvider.StreamChat", "OpenAIProvider.StreamComplete"} =>
        LET lines == DeliverableLines(scan.body)
        IN  /\ Len(scan.out) = Len(lines)
            /\ \A k \in 1..Len(scan.out) :
                  k <= Len(lines) => SentTexts(scan.op, scan.out[k]) = UpstreamTexts(lines[k])

\* the line is one JSON object
ParsesAsObject(line) == line.field = "" /\ line.payload.json

\* the first line of the body that is an object whose done is true, or one
\* past the body
FirstDoneLine(body) ==
    LET at == { i \in 1..Len(body) :
                  /\ ParsesAsObject(body[i])
                  /\ body[i].payload.value[1].done = Present(TRUE) }
    IN  IF at = {} THEN Len(body) + 1 ELSE CHOOSE i \in at : \A j \in at : i <= j

\* the objects of the body up to and including the first whose done is true
LinesUpToDone(body) ==
    SelectSeq(SubSeq(body, 1, Min(FirstDoneLine(body), Len(body))), ParsesAsObject)

\* the text a value sent by an Ollama producer carries
SentText(op, value) ==
    IF op = "OllamaProvider.StreamChat" THEN Deref(value.Message).Content
                                        ELSE value.Response

(* C34: of an Ollama upstream body (one JSON object per line) the first chunk  *)
(* whose done is true is delivered and is the last value of the sequence: no   *)
(* line behind it is delivered; a malformed line before it is skipped and      *)
(* does not end the stream.                                                    *)
C34_NDJSONFraming ==
    scan.op \in {"OllamaProvider.StreamChat", "OllamaProvider.StreamGenerate"} =>
        LET lines == LinesUpToDone(scan.body)
            n == Len(scan.out)
        IN  /\ n = Len(lines)
            /\ \A k \in 1..n :
                  /\ k <= Len(lines) =>
                        SentText(scan.op, scan.out[k]) = lines[k].payload.value[1].response[1]
                  /\ scan.out[k].Done => k = n
            /\ FirstDoneLine(scan.body) <= Len(scan.body) =>
                  /\ n >= 1
                  /\ scan.out[n].Done
                  /\ scan.end = "break"

C34_Witness ==
    /\ scan.op = "OllamaProvider.StreamChat"
    /\ Len(scan.body) = 3
    /\ scan.body[1] = Line("", Text("{oops"))
    /\ ParsesAsObject(scan.body[2]) /\ scan.body[2].payload.value[1].done = Present(TRUE)
    /\ ParsesAsObject(scan.body[3])
    /\ Len(scan.out) = 1
    /\ scan.out[1].Done
    /\ Deref(scan.out[1].Message).Content = "b"

(* C35 as stated: the last value a stream_chat producer delivers carries a     *)
(* non-empty finish_reason on each of its choices, whatever the upstream sent: *)
(* a body that ends with "data: [DONE]" or at its end without a finish_reason  *)
(* included.                                                                   *)
C35_LastChunkHasFinishReason ==
    (scan.op = "OpenAIProvider.StreamChat" /\ Len(scan.out) >= 1) =>
        LET lastChunk == scan.out[Len(scan.out)]
        IN  \A i \in 1..Len(lastChunk.Choices) : lastChunk.Choices[i].FinishReason # ""

(* C36 as stated: a sampling option that the client request lacks is absent    *)
(* from the request sent upstream (not sent with a zero value), by the         *)
(* blocking and by the streaming method, on every path.                        *)
C36_AbsentStaysAbsent ==
    outgoing.op # "" =>
        \A name \in OptionNames :
            outgoing.client[name] = Absent =>
                /\ outgoing.chat[name] = Absent
                /\ outgoing.stream[name] = Absent

(* C37 as stated: for one client request the streaming method sends upstream   *)
(* the same sampling options as the blocking method; the two requests differ   *)
(* in the stream flag only.                                                    *)
C37_StreamSendsWhatChatSends ==
    outgoing.op # "" =>
        /\ \A name \in OptionNames : outgoing.stream[name] = outgoing.chat[name]
        /\ outgoing.stream.stream = Present(TRUE)
        /\ outgoing.chat.stream # Present(TRUE)

----------------------------------------------------------------------------
(* C38: in handleAllProvidersFailed the read of the timeout and its advance    *)
(* act as one atomic step: whatever the interleaving, the Retry-After of a 503 *)
(* is floor(T/1000) with T the value currentTimeout had immediately before     *)
(* that same request's IncrementTimeout.                                       *)
ReadsTimeout(id) == req[id].pc = "exhausted" /\ req'[id].pc = "increment"

Writes503(id) == req[id].pc = "increment" /\ req'[id].pc = "idle"

C38_ReadAndAdvanceAtomic ==
    [][\A id \in Slots :
          Writes503(id) => last'.retryAfter = state.currentTimeout \div 1000]_vars

(* C38, amended: the Retry-After of a 503 is floor(T/1000) with T the value    *)
(* the request read in its own critical section; T is never above the value    *)
(* the request's advance starts from, the advance doubles that value up to the *)
(* cap, and when no two requests overlap T is the value before the advance.    *)
C38_RetryAfterIsOwnRead ==
    [][\A id \in Slots :
          /\ ReadsTimeout(id) =>
                /\ req'[id].timeout = state.currentTimeout
                /\ state' = state
          /\ Writes503(id) =>
                /\ last'.status = <<503>>
                /\ last'.retryAfter = req[id].timeout \div 1000
                /\ req[id].timeout <= state.currentTimeout
                /\ state'.currentTimeout =
                       Min(state.currentTimeout * 2, config.Thresholds.MaxTimeout)
                /\ ~overlap => last'.retryAfter = state.currentTimeout \div 1000]_vars

\* two overlapping requests have both answered 503 with the same Retry-After,
\* below the cap, and the timeout has advanced twice
C38_Witness ==
    /\ overlap
    /\ Len(retryLog) = 2
    /\ retryLog[1] = retryLog[2]
    /\ retryLog[1] * 1000 < config.Thresholds.MaxTimeout
    /\ state.cycle = 2
    /\ last.status = <<503>>

----------------------------------------------------------------------------
(* C39: when requests do not overlap, failureCounts[k] never exceeds           *)
(* failures_before_switch, and a target is invoked at most                     *)
(* failures_before_switch times between two of its resets.                     *)
C39_FailuresAndInvocationsBounded ==
    \A k \in ChainKeys :
        /\ failures(k) <= threshold
        /\ MapGet(invocations, k, 0) <= threshold

----------------------------------------------------------------------------
(* C40: expandEnvVars terminates for every input string and every             *)
(* environment, and returns the string with each reference replaced by the     *)
(* variable's value (empty if unset), also when a value holds a reference.     *)

\* the references of t replaced from left to right, each by its variable's value
RECURSIVE ReferencesReplaced(_, _)
ReferencesReplaced(t, env) ==
    IF ~LoopContinues(t)
    THEN t
    ELSE LET start == StartOf(t)
             end == EndOf(t) + start
         IN  Slice(t, 0, start) \o Getenv(env, Slice(t, start + 2, end))
                \o ReferencesReplaced(SliceFrom(t, end + 1), env)

HasReference(t) == StartOf(t) # -1

Expanding == expansion.op # ""

Expanded == Expanding /\ expansion.returned

C40_ExpansionTerminates ==
    /\ Expanding ~> Expanded
    /\ []((Expanded /\ \A name \in DOMAIN expansion.env :
                            ~HasReference(expansion.env[name]))
           => expansion.s = ReferencesReplaced(expansion.input, expansion.env))

====
